---- MODULE Spec2Model ----
(***************************************************************************)
(* Self-critique planning orchestrator (backend/src/critique): the         *)
(* generate -> critique fan-out -> vote -> accept/revise loop of           *)
(* SelfCritiqueOrchestrator.run, with CritiqueParser and VoteAggregator,   *)
(* and the frontend that drives and displays it: useWebSocket,             *)
(* usePlanningWebSocket, PlanningView, IterationCard, useDomainValidation  *)
(* and chatAPI.                                                            *)
(***************************************************************************)
EXTENDS Integers, Sequences, FiniteSets, TLC

VARIABLES
    pc,                    \* where run() is: idle, generating, critiquing, done, raised, cancelled
    max_iterations,        \* self.max_iterations
    num_critique_samples,  \* self.num_critique_samples
    iteration,             \* loop variable of run()
    plan,                  \* local plan of run()
    critique_history,      \* local critique_history of run()
    iteration_history,     \* local iteration_history of run()
    vote_result,           \* local vote_result of run()
    tasks,                 \* the awaitables handed to asyncio.gather, in submission order
    result,                \* the PlanResult run() returned, if it returned
    exception,             \* the exception that escaped run(), if one did
    gen_calls,             \* router.complete calls issued by _generate_plan
    crit_calls,            \* router.complete calls issued by _run_critiques
    aggregate_calls,       \* calls of VoteAggregator.aggregate
    parse_arg,             \* argument of a direct CritiqueParser.parse call
    parse_ret,             \* what that parse call returned
    aggregate_arg,         \* argument of a direct VoteAggregator.aggregate call
    aggregate_ret,         \* what that aggregate call returned or raised
    gen_prompt,            \* prompt of the latest generation call
    crit_prompts,          \* prompts of the critique calls of the latest fan-out
    mounted,               \* the component using useWebSocket has mounted
    autoConnect,           \* option autoConnect
    reconnect,             \* option reconnect
    maxReconnectAttempts,  \* option maxReconnectAttempts
    exponentialBackoff,    \* option exponentialBackoff
    reconnectInterval,     \* option reconnectInterval, in ms
    maxBackoffInterval,    \* option maxBackoffInterval, in ms
    wsStatus,              \* state status of useWebSocket
    reconnectAttempts,     \* state reconnectAttempts
    renderedAttempts,      \* reconnectAttempts as captured by the connect of the committed render
    sockets,               \* every WebSocket created so far, in creation order
    wsRef,                 \* wsRef.current: an index into sockets, 0 for null
    timers,                \* every reconnect timeout created so far
    reconnectTimeoutRef,   \* reconnectTimeoutRef.current: an index into timers, 0 for null
    startTimer,            \* pending 100 ms timers of startPlanning
    startCalls,            \* calls of startPlanning
    startSent,             \* start messages handed to WebSocket.send
    startDropped,          \* start messages send() dropped with a warning
    stopped,               \* disconnect() was called and connect() not since
    autoReconnects,        \* sockets opened by reconnect timers since the last open event or connect()/disconnect() call
    chat_session,          \* localStorage item chat_session_<domainId>: a session id, 0 when absent
    backendSessions,       \* ids of the chat sessions the backend still holds
    sessionSeq,            \* ids the backend has handed out so far
    getSessionCall,        \* the chatAPI.getSession call in progress or last finished
    getSessionCalls,       \* calls of chatAPI.getSession and chatAPI.reset made by the page
    validateOnChange,      \* option validateOnChange of useDomainValidation
    domainPddl,            \* argument domainPddl of the committed render
    debounceTimers,        \* every debounce timeout created so far
    debounceRef,           \* debounceRef.current: an index into debounceTimers, 0 for null
    requests,              \* every validateDomain request issued so far
    validationResult,      \* state result: the response held, NoResponse for null
    isValidating,          \* state isValidating
    cardProps,             \* props verdict, confidence, critiqueResults of the rendered IterationCard
    cardVoteResult,        \* voteResult of that render: <<>> for null, else <<the VoteResult>>
    iterations,            \* PlanningView state iterations
    currentIteration,      \* PlanningView state currentIteration
    status,                \* PlanningView state status
    isRunning,             \* PlanningView state isRunning
    ws,                    \* PlanningView state ws: an index into viewSockets, 0 for null
    viewSockets,           \* every WebSocket createPlanningWebSocket created so far
    fetches,               \* every domainAPI.get awaited by createPlanningWebSocket so far
    onErrorCalls,          \* calls of the onError callback startPlanning passed
    planningState          \* state of usePlanningWebSocket

vars == <<pc, max_iterations, num_critique_samples, iteration, plan,
          critique_history, iteration_history, vote_result, tasks, result,
          exception, gen_calls, crit_calls, aggregate_calls,
          parse_arg, parse_ret, aggregate_arg, aggregate_ret,
          gen_prompt, crit_prompts,
          mounted, autoConnect, reconnect, maxReconnectAttempts,
                   exponentialBackoff, reconnectInterval, maxBackoffInterval, wsStatus,
          reconnectAttempts, renderedAttempts, sockets, wsRef, timers,
          reconnectTimeoutRef, startTimer, startCalls, startSent, startDropped,
          stopped, autoReconnects,
          chat_session, backendSessions, sessionSeq, getSessionCall,
          getSessionCalls,
          validateOnChange, domainPddl, debounceTimers, debounceRef, requests,
          validationResult, isValidating,
          cardProps, cardVoteResult,
          iterations, currentIteration, status, isRunning, ws, viewSockets,
          fetches, onErrorCalls, planningState>>

\* The state of chatAPI: the stored session id, the backend and the call.
chatVars == <<chat_session, backendSessions, sessionSeq, getSessionCall,
              getSessionCalls>>

\* The state of useDomainValidation.
validationVars == <<validateOnChange, domainPddl, debounceTimers, debounceRef,
                    requests, validationResult, isValidating>>

\* The state of IterationCard.
cardVars == <<cardProps, cardVoteResult>>

\* The state of PlanningView and of the sockets it opens.
viewVars == <<iterations, currentIteration, status, isRunning, ws, viewSockets,
              fetches, onErrorCalls>>

\* The state of the frontend outside useWebSocket.
uiVars == <<chatVars, validationVars, cardVars, viewVars, planningState>>

\* The state of useWebSocket and of its callers.
socketVars == <<mounted, autoConnect, reconnect, maxReconnectAttempts,
                   exponentialBackoff, reconnectInterval, maxBackoffInterval, wsStatus,
              reconnectAttempts, renderedAttempts, sockets, wsRef, timers,
              reconnectTimeoutRef, startTimer, startCalls, startSent,
              startDropped, stopped, autoReconnects>>

\* The state of the frontend.
hookVars == <<socketVars, uiVars>>

\* No getSession call: nothing awaited, nothing looked up, created or returned.
IdleCall ==
    [pc |-> "idle", depth |-> 0, lookupId |-> 0, failedLookups |-> 0,
     created |-> 0, ret |-> 0]

\* No chatAPI call was made.
NoChat ==
    /\ chat_session = 0
    /\ backendSessions = {}
    /\ sessionSeq = 0
    /\ getSessionCall = IdleCall
    /\ getSessionCalls = 0

\* result === null: no response is held.
NoResponse == [request |-> 0, input |-> ""]

\* useDomainValidation is not in use.
NoValidation ==
    /\ validateOnChange = FALSE
    /\ domainPddl = ""
    /\ debounceTimers = <<>>
    /\ debounceRef = 0
    /\ requests = <<>>
    /\ validationResult = NoResponse
    /\ isValidating = FALSE

\* The card of an iteration that has just started: verdict null,
\* confidence 0, no critique results; voteResult is null.
NoCard ==
    /\ cardProps = [verdict |-> "null", confidence |-> [num |-> 0, den |-> 1],
                    critiqueResults |-> <<>>]
    /\ cardVoteResult = <<>>

\* PlanningView as first rendered for a session that has not been planned.
NoView ==
    /\ iterations = <<>>
    /\ currentIteration = 0
    /\ status = "pending"
    /\ isRunning = FALSE
    /\ ws = 0
    /\ viewSockets = <<>>
    /\ fetches = <<>>
    /\ onErrorCalls = 0

\* useState<PlanningState>({isRunning: false, status: 'idle', ...})
InitialPlanningState ==
    [isRunning |-> FALSE, status |-> "idle", currentIteration |-> 0,
     iterations |-> <<>>, finalPlan |-> "null", finalVerdict |-> "null",
     error |-> "null"]

NoUi ==
    /\ NoChat
    /\ NoValidation
    /\ NoCard
    /\ NoView
    /\ planningState = InitialPlanningState

NoSocket ==
    /\ mounted = FALSE
    /\ autoConnect = FALSE
    /\ reconnect = FALSE
    /\ maxReconnectAttempts = 0
    /\ exponentialBackoff = FALSE
    /\ reconnectInterval = 0
    /\ maxBackoffInterval = 0
    /\ wsStatus = "disconnected"
    /\ reconnectAttempts = 0
    /\ renderedAttempts = 0
    /\ sockets = <<>>
    /\ wsRef = 0
    /\ timers = <<>>
    /\ reconnectTimeoutRef = 0
    /\ startTimer = 0
    /\ startCalls = 0
    /\ startSent = 0
    /\ startDropped = 0
    /\ stopped = FALSE
    /\ autoReconnects = 0

NoHook ==
    /\ NoSocket
    /\ NoUi

\* ---------------------------------------------------------------- bounds
MaxIterations == 2
MaxSamples == 3

\* ---------------------------------------------------------------- values
CORRECT == "correct"
WRONG == "wrong"
GOAL_NOT_REACHED == "goal_not_reached"

\* Members of the enum, in definition order.
VerdictOrder == <<CORRECT, WRONG, GOAL_NOT_REACHED>>
Verdict == {VerdictOrder[i] : i \in DOMAIN VerdictOrder}

None == "None"

\* A completion text is a sequence of lines.
PhraseCorrect == "the plan is correct"
PhraseWrong == "the plan is wrong"
PhraseGoal == "goal not reached"

\* str.lower() on one line.
LowerLine(l) ==
    CASE l = "The Plan Is CORRECT" -> "the plan is correct"
      [] l = "PRECONDITION FAILED: (clear A)" -> "precondition failed: (clear a)"
      [] l = "Cannot stack A on B" -> "cannot stack a on b"
      [] l = "THE PLAN IS WRONG" -> "the plan is wrong"
      [] l = "Error: arm not empty" -> "error: arm not empty"
      [] l = "Step 1: (pickup A)" -> "step 1: (pickup a)"
      [] OTHER -> l

\* the text searched as it came
lowerSkipped(response) == response
lower(response) == [i \in DOMAIN response |-> LowerLine(response[i])]

\* re.search(pattern, text) for a verdict phrase: some line holds the phrase.
search(pattern, text) == \E i \in DOMAIN text : text[i] = pattern

VERDICT_PATTERNS ==
    <<[verdict |-> CORRECT, pattern |-> PhraseCorrect],
      [verdict |-> WRONG, pattern |-> PhraseWrong],
      [verdict |-> GOAL_NOT_REACHED, pattern |-> PhraseGoal]>>

\* an unclear critique taken as an accepted plan
_extract_verdictDefaultCorrect(response) ==
    LET response_lower == lower(response)
        hits == {k \in DOMAIN VERDICT_PATTERNS :
                    search(VERDICT_PATTERNS[k].pattern, response_lower)}
    IN  IF hits = {} THEN CORRECT
        ELSE VERDICT_PATTERNS[CHOOSE k \in hits : \A j \in hits : k <= j].verdict
_extract_verdict(response) ==
    LET response_lower == lower(response)
        hits == {k \in DOMAIN VERDICT_PATTERNS :
                    search(VERDICT_PATTERNS[k].pattern, response_lower)}
    IN  IF hits = {} THEN WRONG
        ELSE VERDICT_PATTERNS[CHOOSE k \in hits : \A j \in hits : k <= j].verdict

\* Which of the error patterns (matched with re.IGNORECASE) a line starts.
ErrorPatternOf(l) ==
    CASE LowerLine(l) = "precondition failed: (clear a)" -> 1
      [] LowerLine(l) = "error: arm not empty" -> 2
      [] LowerLine(l) = "cannot stack a on b" -> 3
      [] OTHER -> 0

\* error_patterns are tried in list order; re.search returns the leftmost
\* match of the pattern and group(0) runs to the end of that line.
_extract_error(response) ==
    LET matches(p) == {i \in DOMAIN response : ErrorPatternOf(response[i]) = p}
        found == {p \in 1..3 : matches(p) # {}}
    IN  IF found = {} THEN None
        ELSE LET p == CHOOSE q \in found : \A r \in found : q <= r
                 i == CHOOSE j \in matches(p) : \A k \in matches(p) : j <= k
             IN  response[i]

\* the error extracted whatever the verdict
parseAlwaysError(response) ==
    [verdict |-> _extract_verdict(response),
     error_reason |-> _extract_error(response),
     raw_response |-> response]
parse(response) ==
    LET verdict == _extract_verdict(response)
    IN  [verdict |-> verdict,
         error_reason |-> IF verdict # CORRECT THEN _extract_error(response) ELSE None,
         raw_response |-> response]

\* ---------------------------------------------------------------- voting
LOW_CONFIDENCE_THRESHOLD == [num |-> 4, den |-> 5]

\* the threshold compared with <=
LessOrEqual(a, b) == a.num * b.den <= b.num * a.den
Less(a, b) == a.num * b.den < b.num * a.den

Count(results, v) == Cardinality({i \in DOMAIN results : results[i].verdict = v})

\* the last matching critique instead of the first
LastIndex(results, v) ==
    CHOOSE i \in DOMAIN results :
        /\ results[i].verdict = v
        /\ \A j \in DOMAIN results : results[j].verdict = v => j <= i
FirstIndex(results, v) ==
    CHOOSE i \in DOMAIN results :
        /\ results[i].verdict = v
        /\ \A j \in DOMAIN results : results[j].verdict = v => i <= j

\* the first key of the counter, whatever its count
most_commonFirstKey(results) == results[1].verdict
\* Counter(verdicts).most_common(1)[0][0]: the highest count; among equal
\* counts the key inserted first, i.e. the verdict seen first in the batch.
most_common(results) ==
    LET seen == {results[i].verdict : i \in DOMAIN results}
    IN  CHOOSE v \in seen : \A w \in seen :
            \/ Count(results, v) > Count(results, w)
            \/ /\ Count(results, v) = Count(results, w)
               /\ FirstIndex(results, v) <= FirstIndex(results, w)

\* the breakdown taken from the counter alone: seen kinds only
aggregateSeenOnly(results) ==
    LET majority_verdict == most_common(results)
        majority_count == Count(results, majority_verdict)
        confidence == [num |-> majority_count, den |-> Len(results)]
        seen == {results[i].verdict : i \in DOMAIN results}
    IN  [majority_verdict |-> majority_verdict,
         breakdown |-> [v \in seen |-> Count(results, v)],
         confidence |-> confidence,
         is_low_confidence |-> Less(confidence, LOW_CONFIDENCE_THRESHOLD),
         best_critique |-> results[FirstIndex(results, majority_verdict)]]
aggregate(results) ==
    LET majority_verdict == most_common(results)
        majority_count == Count(results, majority_verdict)
        confidence == [num |-> majority_count, den |-> Len(results)]
    IN  [majority_verdict |-> majority_verdict,
         breakdown |-> [v \in Verdict |-> Count(results, v)],
         confidence |-> confidence,
         is_low_confidence |-> Less(confidence, LOW_CONFIDENCE_THRESHOLD),
         best_critique |-> results[FirstIndex(results, majority_verdict)]]

\* ---------------------------------------------------------------- provider
\* Texts the completion provider may answer a critique prompt with.
CritiqueTexts ==
    { <<PhraseCorrect>>,
      <<"PRECONDITION FAILED: (clear A)", PhraseWrong>>,
      <<PhraseGoal>>,
      <<>> }

\* Texts the completion provider may answer a generation prompt with.
Plans == {"1. pickup A", "1. pickup A 2. stack A B"}

Pending == [state |-> "pending", content |-> <<>>]
Failed == [state |-> "failed", content |-> <<>>]
Abandoned == [state |-> "cancelled", content |-> <<>>]
Returned(text) == [state |-> "ok", content |-> text]

NoVote == [majority_verdict |-> "unbound"]
NoParse == [verdict |-> "unbound"]
NoResult == [status |-> "none"]

\* ---------------------------------------------------------------- run()
PLAN_HISTORY_EMPTY == <<>>

\* f"\nPrevious attempt failed with: {error_reason}\nPlease fix this issue."
CritiqueHistoryText(error_reason) ==
    <<"Previous attempt failed with:", error_reason, "Please fix this issue.">>


\* The arguments of run(): opaque texts.
domain_pddl == "(define (domain blocks))"
problem_pddl == "(define (problem stack))"

\* self.PLAN_PROMPT.format(domain_pddl, problem_pddl, critique_history)
PLAN_PROMPT(history) ==
    <<"Given the domain definition:", domain_pddl,
      "The problem to solve:", problem_pddl>>
    \o history
    \o <<"Generate a plan to solve this problem. Output only the numbered list of actions.">>

\* the template formatted without the candidate
CRITIQUE_PROMPTWithoutPlan(p) ==
    <<"Given the domain definition:", domain_pddl,
      "The problem to solve:", problem_pddl,
      "The suggested solution:",
      "Please carefully evaluate the plan.">>
\* self.CRITIQUE_PROMPT.format(domain_pddl, problem_pddl, plan)
CRITIQUE_PROMPT(p) ==
    <<"Given the domain definition:", domain_pddl,
      "The problem to solve:", problem_pddl,
      "The suggested solution:", p,
      "Please carefully evaluate the plan.">>

\* every sample asked with a prompt of its own
CritiqueTasksNumbered(prompt) ==
    [i \in 1..num_critique_samples |-> Append(prompt, i)]
\* [router.complete(LLMRequest(prompt=prompt, ...)) for _ in range(num_critique_samples)]
CritiqueTasks(prompt) ==
    [i \in 1..num_critique_samples |-> prompt]

\* gather answered as soon as one call has returned
GatherDoneFirstCompleted ==
    /\ \E i \in DOMAIN tasks : tasks[i].state = "ok"
    /\ \A i \in DOMAIN tasks : tasks[i].state \in {"ok", "pending"}
\* await asyncio.gather(*tasks) returns: every call has returned
GatherDone ==
    \A i \in DOMAIN tasks : tasks[i].state = "ok"

\* the loop counter used zero-based in the record
IterationRecordZeroBased(it, p, v) == [iteration |-> it - 1, plan |-> p, vote_result |-> v]
IterationRecord(it, p, v) == [iteration |-> it, plan |-> p, vote_result |-> v]


\* the record appended only on the revise branch
appendOnReviseOnly(history, record) ==
    IF record.vote_result.majority_verdict = CORRECT
      THEN history
      ELSE Append(history, record)
append(history, record) == Append(history, record)


\* the early return dropped
IsValidNever(v) == FALSE
IsValid(v) == v.majority_verdict = CORRECT


\* iterations reported as the number of earlier iterations
ValidResultOffByOne(p, it, history) ==
    [plan |-> p, status |-> "valid", iterations |-> it - 1,
     final_verdict |-> CORRECT, iteration_history |-> history]
ValidResult(p, it, history) ==
    [plan |-> p, status |-> "valid", iterations |-> it,
     final_verdict |-> CORRECT, iteration_history |-> history]

\* the exhausted budget reported with a fixed verdict
MaxIterationsResultAlwaysWrong(p, v, history) ==
    [plan |-> p, status |-> "max_iterations", iterations |-> max_iterations,
     final_verdict |-> WRONG, iteration_history |-> history]
MaxIterationsResult(p, v, history) ==
    [plan |-> p, status |-> "max_iterations", iterations |-> max_iterations,
     final_verdict |-> v.majority_verdict, iteration_history |-> history]


\* range(1, self.max_iterations)
HasNextIterationShort(it) == it + 1 < max_iterations
\* range(1, self.max_iterations + 1) has a next value after it
HasNextIteration(it) == it + 1 < max_iterations + 1

Init ==
    /\ pc = "idle"
    /\ max_iterations \in 1..MaxIterations
    /\ num_critique_samples \in 1..MaxSamples
    /\ iteration = 0
    /\ plan = None
    /\ critique_history = PLAN_HISTORY_EMPTY
    /\ iteration_history = <<>>
    /\ vote_result = NoVote
    /\ tasks = <<>>
    /\ result = NoResult
    /\ exception = None
    /\ gen_calls = 0
    /\ crit_calls = 0
    /\ aggregate_calls = 0
    /\ parse_arg = <<>>
    /\ parse_ret = NoParse
    /\ aggregate_arg = <<>>
    /\ aggregate_ret = NoVote
    /\ gen_prompt = <<>>
    /\ crit_prompts = <<>>
    /\ NoHook

\* run() is called: locals are initialised, the loop is entered and
\* _generate_plan issues the generation call of iteration 1.
Run ==
    /\ pc = "idle"
    /\ critique_history' = PLAN_HISTORY_EMPTY
    /\ iteration_history' = <<>>
    /\ iteration' = 1
    /\ gen_calls' = gen_calls + 1
    /\ gen_prompt' = PLAN_PROMPT(PLAN_HISTORY_EMPTY)
    /\ pc' = "generating"
    /\ UNCHANGED <<hookVars, parse_arg, parse_ret, aggregate_arg, aggregate_ret,
                   max_iterations, num_critique_samples, plan, vote_result,
                   tasks, result, exception, crit_calls, aggregate_calls,
                   crit_prompts>>

\* The generation call returns: plan = response.content, then _run_critiques
\* creates num_critique_samples completion calls and awaits asyncio.gather.
GenerateReturn(p) ==
    /\ pc = "generating"
    /\ plan' = p
    /\ crit_prompts' = CritiqueTasks(CRITIQUE_PROMPT(p))
    /\ tasks' = [i \in DOMAIN crit_prompts' |-> Pending]
    /\ crit_calls' = crit_calls + Len(crit_prompts')
    /\ pc' = "critiquing"
    /\ UNCHANGED <<hookVars, parse_arg, parse_ret, aggregate_arg, aggregate_ret,
                   max_iterations, num_critique_samples, iteration,
                   critique_history, iteration_history, vote_result, result,
                   exception, gen_calls, aggregate_calls, gen_prompt>>

\* The generation call raises: nothing in _generate_plan or run catches it.
GenerateFail ==
    /\ pc = "generating"
    /\ pc' = "raised"
    /\ exception' = "generation"
    /\ UNCHANGED <<hookVars, parse_arg, parse_ret, aggregate_arg, aggregate_ret,
                   max_iterations, num_critique_samples, iteration, plan,
                   critique_history, iteration_history, vote_result, tasks,
                   result, gen_calls, crit_calls, aggregate_calls,
                   gen_prompt, crit_prompts>>

\* One critique call returns.  After gather has propagated an exception the
\* remaining calls are not cancelled and still run to completion.
CritiqueReturn(i, text) ==
    /\ pc \in {"critiquing", "raised"}
    /\ i \in DOMAIN tasks
    /\ tasks[i] = Pending
    /\ tasks' = [tasks EXCEPT ![i] = Returned(text)]
    /\ UNCHANGED <<hookVars, parse_arg, parse_ret, aggregate_arg, aggregate_ret,
                   pc, max_iterations, num_critique_samples, iteration, plan,
                   critique_history, iteration_history, vote_result, result,
                   exception, gen_calls, crit_calls, aggregate_calls,
                   gen_prompt, crit_prompts>>

\* One critique call raises.  gather (return_exceptions=False) propagates the
\* first exception to the awaiting run(), which does not catch it.
CritiqueFail(i) ==
    /\ pc \in {"critiquing", "raised"}
    /\ i \in DOMAIN tasks
    /\ tasks[i] = Pending
    /\ tasks' = [tasks EXCEPT ![i] = Failed]
    /\ IF pc = "critiquing"
         THEN pc' = "raised" /\ exception' = "critique"
         ELSE UNCHANGED <<pc, exception>>
    /\ UNCHANGED <<hookVars, parse_arg, parse_ret, aggregate_arg, aggregate_ret,
                   max_iterations, num_critique_samples, iteration, plan,
                   critique_history, iteration_history, vote_result, result,
                   gen_calls, crit_calls, aggregate_calls,
                   gen_prompt, crit_prompts>>

\* gather completed: parse, aggregate, append the record, then return VALID,
\* or set the critique history and either issue the next generation call or
\* fall out of the loop and return MAX_ITERATIONS.  (The locals are bound
\* with \E over singleton sets so that each is evaluated once.)
Decide ==
    /\ pc = "critiquing"
    /\ GatherDone
    /\ \E responses \in {[i \in DOMAIN tasks |-> tasks[i].content]} :
       \E results \in {[i \in DOMAIN responses |-> parse(responses[i])]} :
       \E v \in {aggregate(results)} :
       \E history \in {append(iteration_history, IterationRecord(iteration, plan, v))} :
           /\ vote_result' = v
           /\ aggregate_calls' = aggregate_calls + 1
           /\ iteration_history' = history
           /\ IF IsValid(v)
                THEN /\ result' = ValidResult(plan, iteration, history)
                     /\ pc' = "done"
                     /\ UNCHANGED <<critique_history, iteration, gen_calls, gen_prompt>>
                ELSE /\ critique_history' = CritiqueHistoryText(v.best_critique.error_reason)
                     /\ IF HasNextIteration(iteration)
                          THEN /\ iteration' = iteration + 1
                               /\ gen_calls' = gen_calls + 1
                               /\ gen_prompt' =
                                      PLAN_PROMPT(CritiqueHistoryText(v.best_critique.error_reason))
                               /\ pc' = "generating"
                               /\ UNCHANGED result
                          ELSE /\ result' = MaxIterationsResult(plan, v, history)
                               /\ pc' = "done"
                               /\ UNCHANGED <<iteration, gen_calls, gen_prompt>>
    /\ UNCHANGED <<hookVars, parse_arg, parse_ret, aggregate_arg, aggregate_ret,
                   max_iterations, num_critique_samples, plan, tasks,
                   exception, crit_calls, crit_prompts>>


\* cancellation answered with a vote over the samples that already returned
CancelBestEffort ==
    /\ pc \in {"generating", "critiquing"}
    /\ tasks' = [i \in DOMAIN tasks |->
                    IF tasks[i] = Pending /\ pc = "critiquing" THEN Abandoned ELSE tasks[i]]
    /\ LET ok == {i \in DOMAIN tasks : tasks[i].state = "ok"}
           order == CHOOSE f \in [1..Cardinality(ok) -> ok] :
                        \A a, b \in 1..Cardinality(ok) : a < b => f[a] < f[b]
           results == [k \in 1..Cardinality(ok) |-> parse(tasks[order[k]].content)]
       IN  IF pc = "critiquing" /\ ok # {}
             THEN /\ vote_result' = aggregate(results)
                  /\ result' = IF IsValid(vote_result')
                                 THEN ValidResult(plan, iteration, iteration_history)
                                 ELSE MaxIterationsResult(plan, vote_result', iteration_history)
                  /\ pc' = "done"
             ELSE /\ pc' = "cancelled"
                  /\ UNCHANGED <<vote_result, result>>
    /\ UNCHANGED <<hookVars, parse_arg, parse_ret, aggregate_arg, aggregate_ret,
                   max_iterations, num_critique_samples, iteration, plan,
                   critique_history, iteration_history, exception, gen_calls,
                   crit_calls, aggregate_calls, gen_prompt, crit_prompts>>
\* The task running run() is cancelled while it awaits a completion call or
\* the gather: CancelledError is thrown at the await and escapes run(); the
\* pending children of gather are cancelled.
Cancel ==
    /\ pc \in {"generating", "critiquing"}
    /\ pc' = "cancelled"
    /\ tasks' = [i \in DOMAIN tasks |->
                    IF tasks[i] = Pending /\ pc = "critiquing" THEN Abandoned ELSE tasks[i]]
    /\ UNCHANGED <<hookVars, parse_arg, parse_ret, aggregate_arg, aggregate_ret,
                   max_iterations, num_critique_samples, iteration, plan,
                   critique_history, iteration_history, vote_result, result,
                   exception, gen_calls, crit_calls, aggregate_calls,
                   gen_prompt, crit_prompts>>

Next ==
    \/ Run
    \/ \E p \in Plans : GenerateReturn(p)
    \/ GenerateFail
    \/ \E i \in 1..MaxSamples, text \in CritiqueTexts : CritiqueReturn(i, text)
    \/ \E i \in 1..MaxSamples : CritiqueFail(i)
    \/ Decide
    \/ Cancel

Spec == Init /\ [][Next]_vars

\* run() is called and never cancelled, every completion call eventually
\* returns or raises, and the event loop resumes run() when gather completes.
NextUncancelled ==
    \/ Run
    \/ \E p \in Plans : GenerateReturn(p)
    \/ GenerateFail
    \/ \E i \in 1..MaxSamples, text \in CritiqueTexts : CritiqueReturn(i, text)
    \/ \E i \in 1..MaxSamples : CritiqueFail(i)
    \/ Decide

FairSpec ==
    /\ Init
    /\ [][NextUncancelled]_vars
    /\ WF_vars(Run)
    /\ WF_vars((\E p \in Plans : GenerateReturn(p)) \/ GenerateFail)
    /\ \A i \in 1..MaxSamples :
          WF_vars((\E text \in CritiqueTexts : CritiqueReturn(i, text)) \/ CritiqueFail(i))
    /\ WF_vars(Decide)

\* run() with a budget of MaxRevisions iterations and one sample each.
MaxRevisions == 3

RevisionInit ==
    /\ pc = "idle"
    /\ max_iterations = MaxRevisions
    /\ num_critique_samples = 1
    /\ iteration = 0
    /\ plan = None
    /\ critique_history = PLAN_HISTORY_EMPTY
    /\ iteration_history = <<>>
    /\ vote_result = NoVote
    /\ tasks = <<>>
    /\ result = NoResult
    /\ exception = None
    /\ gen_calls = 0
    /\ crit_calls = 0
    /\ aggregate_calls = 0
    /\ parse_arg = <<>>
    /\ parse_ret = NoParse
    /\ aggregate_arg = <<>>
    /\ aggregate_ret = NoVote
    /\ gen_prompt = <<>>
    /\ crit_prompts = <<>>
    /\ NoHook

RevisionSpec == RevisionInit /\ [][Next]_vars

\* ---------------------------------------------------------------- parse()
\* The orchestrator's state while a function is exercised on its own.
runVars == <<pc, max_iterations, num_critique_samples, iteration, plan,
             critique_history, iteration_history, vote_result, tasks, result,
             exception, gen_calls, crit_calls, aggregate_calls,
             gen_prompt, crit_prompts>>

NotRunning ==
    /\ pc = "idle"
    /\ max_iterations = 1
    /\ num_critique_samples = 1
    /\ iteration = 0
    /\ plan = None
    /\ critique_history = PLAN_HISTORY_EMPTY
    /\ iteration_history = <<>>
    /\ vote_result = NoVote
    /\ tasks = <<>>
    /\ result = NoResult
    /\ exception = None
    /\ gen_calls = 0
    /\ crit_calls = 0
    /\ aggregate_calls = 0
    /\ gen_prompt = <<>>
    /\ crit_prompts = <<>>

MaxTextLen == 3

\* Lines a critique completion may consist of.
Lines ==
    { PhraseCorrect, "The Plan Is CORRECT", PhraseWrong, "THE PLAN IS WRONG",
      PhraseGoal, "PRECONDITION FAILED: (clear A)", "Error: arm not empty",
      "Cannot stack A on B", "Step 1: (pickup A)" }

Texts == UNION {[1..n -> Lines] : n \in 0..MaxTextLen}

ParserInit ==
    /\ NotRunning
    /\ parse_arg \in Texts
    /\ parse_ret = NoParse
    /\ aggregate_arg = <<>>
    /\ aggregate_ret = NoVote
    /\ NoHook

\* result = CritiqueParser.parse(response)
Parse ==
    /\ parse_ret = NoParse
    /\ parse_ret' = parse(parse_arg)
    /\ UNCHANGED <<parse_arg, aggregate_arg, aggregate_ret>>
    /\ UNCHANGED runVars
    /\ UNCHANGED hookVars

ParserNext == Parse

ParserSpec == ParserInit /\ [][ParserNext]_vars

\* ---------------------------------------------------------------- aggregate()
MaxBatch == 5

\* CritiqueResults a batch may hold: what parse makes of the provider's texts.
BatchItems == {parse(text) : text \in CritiqueTexts}

Batches == UNION {[1..n -> BatchItems] : n \in 0..MaxBatch}

\* counter.most_common(1)[0] on an empty counter
IndexError == [majority_verdict |-> "IndexError"]

AggregatorInit ==
    /\ NotRunning
    /\ parse_arg = <<>>
    /\ parse_ret = NoParse
    /\ aggregate_arg \in Batches
    /\ aggregate_ret = NoVote
    /\ NoHook

\* vote = VoteAggregator.aggregate(results)
Aggregate ==
    /\ aggregate_ret = NoVote
    /\ Len(aggregate_arg) > 0
    /\ aggregate_ret' = aggregate(aggregate_arg)
    /\ UNCHANGED <<parse_arg, parse_ret, aggregate_arg>>
    /\ UNCHANGED runVars
    /\ UNCHANGED hookVars

\* aggregate([]) raises IndexError before anything is computed
AggregateRaise ==
    /\ aggregate_ret = NoVote
    /\ Len(aggregate_arg) = 0
    /\ aggregate_ret' = IndexError
    /\ UNCHANGED <<parse_arg, parse_ret, aggregate_arg>>
    /\ UNCHANGED runVars
    /\ UNCHANGED hookVars

AggregatorNext ==
    \/ Aggregate
    \/ AggregateRaise

AggregatorSpec == AggregatorInit /\ [][AggregatorNext]_vars

\* ---------------------------------------------------------------- useWebSocket
\* The backend's state while the frontend hooks are exercised.
backendVars == <<runVars, parse_arg, parse_ret, aggregate_arg, aggregate_ret>>

\* Everything outside useWebSocket.
coreVars == <<backendVars, uiVars>>

MaxAttemptsOption == 2
MaxSockets == 4
MaxTimers == 3
MaxStarts == 2

\* maxReconnectAttempts = 5 in the parameter defaults
DefaultMaxReconnectAttempts == 5
\* reconnectInterval = 1000
DefaultReconnectInterval == 1000
\* maxBackoffInterval = 30000
DefaultMaxBackoffInterval == 30000

CONNECTING == "CONNECTING"
OPEN == "OPEN"
CLOSING == "CLOSING"
CLOSED == "CLOSED"

\* new WebSocket(wsUrl) with the handlers assigned by a connect whose render
\* saw reconnectAttempts = k; the close event has not been delivered.
NewSocket(k) == [readyState |-> CONNECTING, attempts |-> k, onclose |-> "armed"]

\* Math.min(a, b)
Min(a, b) == IF a <= b THEN a ELSE b

\* the delay computed in an onclose handler whose connect saw
\* reconnectAttempts = k
Delay(k) ==
    IF exponentialBackoff
      THEN Min(reconnectInterval * 2^k, maxBackoffInterval)
      ELSE reconnectInterval

\* setTimeout(() => { setReconnectAttempts(prev => prev + 1); connect(); }, delay)
\* created by the onclose of a connect whose render saw reconnectAttempts = k
NewTimer(k) == [attempts |-> k, state |-> "pending", delay |-> Delay(k)]

\* The refs and the status state, as handler bodies read and write them.
Refs ==
    [sockets |-> sockets, wsRef |-> wsRef, timers |-> timers,
     reconnectTimeoutRef |-> reconnectTimeoutRef, status |-> wsStatus]

Commit(h) ==
    /\ sockets' = h.sockets
    /\ wsRef' = h.wsRef
    /\ timers' = h.timers
    /\ reconnectTimeoutRef' = h.reconnectTimeoutRef
    /\ wsStatus' = h.status

clearReconnectTimeout(h) ==
    IF h.reconnectTimeoutRef # 0
      THEN [h EXCEPT !.timers[h.reconnectTimeoutRef].state =
                         IF @ = "pending" THEN "cleared" ELSE @,
                     !.reconnectTimeoutRef = 0]
      ELSE h

\* wsRef.current?.readyState === WebSocket.OPEN
IsOpen(h) == h.wsRef # 0 /\ h.sockets[h.wsRef].readyState = OPEN

\* the connect of a render that saw reconnectAttempts = k
connect(h, k) ==
    IF IsOpen(h)
      THEN h
      ELSE [clearReconnectTimeout(h) EXCEPT
                !.status = "connecting",
                !.sockets = Append(@, NewSocket(k)),
                !.wsRef = Len(h.sockets) + 1]

\* wsRef.current.close(): a closed or closing socket is left as it is
closeCurrent(h) ==
    IF h.wsRef # 0
      THEN [h EXCEPT !.sockets[h.wsRef].readyState =
                         IF @ \in {CONNECTING, OPEN} THEN CLOSING ELSE @]
      ELSE h

\* the refs and status after disconnect()
disconnect(h) ==
    [closeCurrent(clearReconnectTimeout(h)) EXCEPT
        !.wsRef = 0, !.status = "disconnected"]

\* reconnect && reconnectAttempts < maxReconnectAttempts, in a handler whose
\* connect saw reconnectAttempts = k
MayReconnect(k) == reconnect /\ k < maxReconnectAttempts

WebSocketInit ==
    /\ NotRunning
    /\ parse_arg = <<>>
    /\ parse_ret = NoParse
    /\ aggregate_arg = <<>>
    /\ aggregate_ret = NoVote
    /\ mounted = FALSE
    /\ autoConnect \in BOOLEAN
    /\ reconnect \in BOOLEAN
    /\ maxReconnectAttempts \in 1..MaxAttemptsOption
    /\ exponentialBackoff = TRUE
    /\ reconnectInterval = DefaultReconnectInterval
    /\ maxBackoffInterval = DefaultMaxBackoffInterval
    /\ wsStatus = "disconnected"
    /\ reconnectAttempts = 0
    /\ renderedAttempts = 0
    /\ sockets = <<>>
    /\ wsRef = 0
    /\ timers = <<>>
    /\ reconnectTimeoutRef = 0
    /\ startTimer = 0
    /\ startCalls = 0
    /\ startSent = 0
    /\ startDropped = 0
    /\ stopped = FALSE
    /\ autoReconnects = 0
    /\ NoUi

\* The component mounts: the effect runs with the first render's connect.
Mount ==
    /\ ~mounted
    /\ mounted' = TRUE
    /\ \E h \in {IF autoConnect THEN connect(Refs, renderedAttempts) ELSE Refs} :
          Commit(h)
    /\ UNCHANGED <<autoConnect, reconnect, maxReconnectAttempts,
                   exponentialBackoff, reconnectInterval, maxBackoffInterval, reconnectAttempts,
                   renderedAttempts, startTimer, startCalls, startSent,
                   startDropped, stopped, autoReconnects>>
    /\ UNCHANGED coreVars

\* The caller invokes the connect it was handed by the committed render.
Connect ==
    /\ mounted
    /\ \E h \in {connect(Refs, renderedAttempts)} :
          /\ Len(h.sockets) <= MaxSockets
          /\ Commit(h)
    /\ stopped' = FALSE
    /\ autoReconnects' = 0
    /\ UNCHANGED <<mounted, autoConnect, reconnect, maxReconnectAttempts,
                   exponentialBackoff, reconnectInterval, maxBackoffInterval,
                   reconnectAttempts, renderedAttempts, startTimer, startCalls,
                   startSent, startDropped>>
    /\ UNCHANGED coreVars

\* The caller invokes disconnect().
Disconnect ==
    /\ mounted
    /\ Commit(disconnect(Refs))
    /\ reconnectAttempts' = maxReconnectAttempts
    /\ stopped' = TRUE
    /\ autoReconnects' = 0
    /\ UNCHANGED <<mounted, autoConnect, reconnect, maxReconnectAttempts,
                   exponentialBackoff, reconnectInterval, maxBackoffInterval,
                   renderedAttempts, startTimer, startCalls, startSent,
                   startDropped>>
    /\ UNCHANGED coreVars

\* The open event of socket s: onopen.
SocketOpen(s) ==
    /\ s \in DOMAIN sockets
    /\ sockets[s].readyState = CONNECTING
    /\ sockets' = [sockets EXCEPT ![s].readyState = OPEN]
    /\ wsStatus' = "connected"
    /\ reconnectAttempts' = 0
    /\ autoReconnects' = 0
    /\ UNCHANGED <<mounted, autoConnect, reconnect, maxReconnectAttempts,
                   exponentialBackoff, reconnectInterval, maxBackoffInterval,
                   renderedAttempts, wsRef, timers, reconnectTimeoutRef,
                   startTimer, startCalls, startSent, startDropped, stopped>>
    /\ UNCHANGED coreVars

\* The connection of socket s fails: the error event, onerror; the close
\* event follows.
SocketError(s) ==
    /\ s \in DOMAIN sockets
    /\ sockets[s].readyState \in {CONNECTING, OPEN}
    /\ sockets' = [sockets EXCEPT ![s].readyState = CLOSED]
    /\ wsStatus' = "error"
    /\ UNCHANGED <<mounted, autoConnect, reconnect, maxReconnectAttempts,
                   exponentialBackoff, reconnectInterval, maxBackoffInterval,
                   reconnectAttempts, renderedAttempts, wsRef, timers,
                   reconnectTimeoutRef, startTimer, startCalls, startSent,
                   startDropped, stopped, autoReconnects>>
    /\ UNCHANGED coreVars

\* The close event of socket s (closed by the server, by close() or after an
\* error): onclose, with the reconnectAttempts its connect captured.
SocketClose(s) ==
    /\ s \in DOMAIN sockets
    /\ sockets[s].onclose = "armed"
    /\ sockets[s].readyState \in {OPEN, CLOSING, CLOSED}
    /\ sockets' = [sockets EXCEPT ![s].readyState = CLOSED, ![s].onclose = "fired"]
    /\ wsStatus' = "disconnected"
    /\ IF MayReconnect(sockets[s].attempts)
         THEN /\ Len(timers) < MaxTimers
              /\ timers' = Append(timers, NewTimer(sockets[s].attempts))
              /\ reconnectTimeoutRef' = Len(timers) + 1
         ELSE UNCHANGED <<timers, reconnectTimeoutRef>>
    /\ UNCHANGED <<mounted, autoConnect, reconnect, maxReconnectAttempts,
                   exponentialBackoff, reconnectInterval, maxBackoffInterval,
                   reconnectAttempts, renderedAttempts, wsRef, startTimer,
                   startCalls, startSent, startDropped, stopped, autoReconnects>>
    /\ UNCHANGED coreVars

\* Reconnect timeout t fires: the attempt counter is incremented and the
\* connect that scheduled it is called.
TimerFire(t) ==
    /\ t \in DOMAIN timers
    /\ timers[t].state = "pending"
    /\ reconnectAttempts' = reconnectAttempts + 1
    /\ \E h \in {connect([Refs EXCEPT !.timers[t].state = "fired"], timers[t].attempts)} :
          /\ Len(h.sockets) <= MaxSockets
          /\ Commit(h)
          /\ autoReconnects' = IF Len(h.sockets) > Len(sockets)
                                 THEN autoReconnects + 1
                                 ELSE autoReconnects
    /\ UNCHANGED <<mounted, autoConnect, reconnect, maxReconnectAttempts,
                   exponentialBackoff, reconnectInterval, maxBackoffInterval,
                   renderedAttempts, startTimer, startCalls, startSent,
                   startDropped, stopped>>
    /\ UNCHANGED coreVars

\* React commits the render that follows a change of reconnectAttempts:
\* connect is a new function, so the effect's cleanup runs (the timeout is
\* cleared, the current socket closed) and the effect runs again.
Render ==
    /\ mounted
    /\ renderedAttempts # reconnectAttempts
    /\ renderedAttempts' = reconnectAttempts
    /\ \E c \in {closeCurrent(clearReconnectTimeout(Refs))} :
       \E h \in {IF autoConnect THEN connect(c, reconnectAttempts) ELSE c} :
          /\ Len(h.sockets) <= MaxSockets
          /\ Commit(h)
    /\ UNCHANGED <<mounted, autoConnect, reconnect, maxReconnectAttempts,
                   exponentialBackoff, reconnectInterval, maxBackoffInterval,
                   reconnectAttempts, startTimer, startCalls, startSent,
                   startDropped, stopped, autoReconnects>>
    /\ UNCHANGED coreVars

WebSocketNext ==
    \/ Mount
    \/ Connect
    \/ Disconnect
    \/ \E s \in 1..MaxSockets : SocketOpen(s)
    \/ \E s \in 1..MaxSockets : SocketError(s)
    \/ \E s \in 1..MaxSockets : SocketClose(s)
    \/ \E t \in 1..MaxTimers : TimerFire(t)
    \/ Render

WebSocketSpec == WebSocketInit /\ [][WebSocketNext]_vars

\* useWebSocket with reconnect on and the backoff options varied.
BackoffInit ==
    /\ NotRunning
    /\ parse_arg = <<>>
    /\ parse_ret = NoParse
    /\ aggregate_arg = <<>>
    /\ aggregate_ret = NoVote
    /\ mounted = FALSE
    /\ autoConnect \in BOOLEAN
    /\ reconnect = TRUE
    /\ maxReconnectAttempts = MaxAttemptsOption
    /\ exponentialBackoff \in BOOLEAN
    /\ reconnectInterval = DefaultReconnectInterval
    /\ maxBackoffInterval \in {1500, DefaultMaxBackoffInterval}
    /\ wsStatus = "disconnected"
    /\ reconnectAttempts = 0
    /\ renderedAttempts = 0
    /\ sockets = <<>>
    /\ wsRef = 0
    /\ timers = <<>>
    /\ reconnectTimeoutRef = 0
    /\ startTimer = 0
    /\ startCalls = 0
    /\ startSent = 0
    /\ startDropped = 0
    /\ stopped = FALSE
    /\ autoReconnects = 0
    /\ NoUi

BackoffSpec == BackoffInit /\ [][WebSocketNext]_vars

\* ---------------------------------------------------------------- usePlanningWebSocket
\* useWebSocket({url, onMessage: handleMessage, autoConnect: false})
PlanningInit ==
    /\ NotRunning
    /\ parse_arg = <<>>
    /\ parse_ret = NoParse
    /\ aggregate_arg = <<>>
    /\ aggregate_ret = NoVote
    /\ mounted = FALSE
    /\ autoConnect = FALSE
    /\ reconnect = TRUE
    /\ maxReconnectAttempts = DefaultMaxReconnectAttempts
    /\ exponentialBackoff = TRUE
    /\ reconnectInterval = DefaultReconnectInterval
    /\ maxBackoffInterval = DefaultMaxBackoffInterval
    /\ wsStatus = "disconnected"
    /\ reconnectAttempts = 0
    /\ renderedAttempts = 0
    /\ sockets = <<>>
    /\ wsRef = 0
    /\ timers = <<>>
    /\ reconnectTimeoutRef = 0
    /\ startTimer = 0
    /\ startCalls = 0
    /\ startSent = 0
    /\ startDropped = 0
    /\ stopped = FALSE
    /\ autoReconnects = 0
    /\ NoUi

\* setState(prev => ({...prev, isRunning: true, status: 'planning',
\* iterations: [], finalPlan: null, finalVerdict: null, error: null}))
startPlanningState(prev) ==
    [prev EXCEPT !.isRunning = TRUE, !.status = "planning", !.iterations = <<>>,
                 !.finalPlan = "null", !.finalVerdict = "null", !.error = "null"]

\* setState(prev => ({...prev, isRunning: false, status: 'idle'}))
stopPlanningStateRunning(prev) == [prev EXCEPT !.status = "idle"]
stopPlanningState(prev) == [prev EXCEPT !.isRunning = FALSE, !.status = "idle"]

\* startPlanning(): the state is reset, connect(), then a 100 ms timer that
\* will send 'start'.
StartPlanning ==
    /\ mounted
    /\ startCalls < MaxStarts
    /\ planningState' = startPlanningState(planningState)
    /\ \E h \in {connect(Refs, renderedAttempts)} :
          /\ Len(h.sockets) <= MaxSockets
          /\ Commit(h)
    /\ startTimer' = startTimer + 1
    /\ startCalls' = startCalls + 1
    /\ stopped' = FALSE
    /\ autoReconnects' = 0
    /\ UNCHANGED <<mounted, autoConnect, reconnect, maxReconnectAttempts,
                   exponentialBackoff, reconnectInterval, maxBackoffInterval,
                   reconnectAttempts, renderedAttempts, startSent, startDropped>>
    /\ UNCHANGED <<backendVars, chatVars, validationVars, cardVars, viewVars>>

\* stopPlanning(): disconnect(), then the state is set to idle.
StopPlanning ==
    /\ mounted
    /\ Commit(disconnect(Refs))
    /\ reconnectAttempts' = maxReconnectAttempts
    /\ stopped' = TRUE
    /\ autoReconnects' = 0
    /\ planningState' = stopPlanningState(planningState)
    /\ UNCHANGED <<mounted, autoConnect, reconnect, maxReconnectAttempts,
                   exponentialBackoff, reconnectInterval, maxBackoffInterval,
                   renderedAttempts, startTimer, startCalls, startSent,
                   startDropped>>
    /\ UNCHANGED <<backendVars, chatVars, validationVars, cardVars, viewVars>>

\* The 100 ms timer fires: send({action: 'start', ...}) sends on an open
\* socket and otherwise warns and drops the message.
StartTimerFire ==
    /\ startTimer > 0
    /\ startTimer' = startTimer - 1
    /\ IF IsOpen(Refs)
         THEN startSent' = startSent + 1 /\ UNCHANGED startDropped
         ELSE startDropped' = startDropped + 1 /\ UNCHANGED startSent
    /\ UNCHANGED <<mounted, autoConnect, reconnect, maxReconnectAttempts,
                   exponentialBackoff, reconnectInterval, maxBackoffInterval, wsStatus,
                   reconnectAttempts, renderedAttempts, sockets, wsRef, timers,
                   reconnectTimeoutRef, startCalls, stopped, autoReconnects>>
    /\ UNCHANGED coreVars

PlanningNext ==
    \/ Mount
    \/ StartPlanning
    \/ StopPlanning
    \/ \E s \in 1..MaxSockets : SocketOpen(s)
    \/ \E s \in 1..MaxSockets : SocketError(s)
    \/ \E s \in 1..MaxSockets : SocketClose(s)
    \/ \E t \in 1..MaxTimers : TimerFire(t)
    \/ Render
    \/ StartTimerFire

PlanningSpec == PlanningInit /\ [][PlanningNext]_vars

\* ---------------------------------------------------------------- chatAPI
MaxCalls == 3
MaxDepth == 3

\* localStorage.removeItem(`chat_session_${domainId}`)
clearSessionIdKept(stored) == stored
clearSessionId(stored) == 0

\* The start of a getSession body at recursion depth d with the call's
\* counters c: getSessionId, then the POST of /chat/start when nothing is
\* stored, the GET of /chat/session/<id> otherwise; both are awaited.
EnterGetSession(stored, d, c) ==
    [c EXCEPT !.pc = IF stored = 0 THEN "creating" ELSE "looking",
              !.depth = d,
              !.lookupId = stored]

ChatInit ==
    /\ NotRunning
    /\ parse_arg = <<>>
    /\ parse_ret = NoParse
    /\ aggregate_arg = <<>>
    /\ aggregate_ret = NoVote
    /\ NoSocket
    /\ chat_session \in 0..1
    /\ backendSessions \in SUBSET {1}
    /\ sessionSeq = 1
    /\ getSessionCall = IdleCall
    /\ getSessionCalls = 0
    /\ NoValidation
    /\ NoCard
    /\ NoView
    /\ planningState = InitialPlanningState

\* No getSession is awaiting a response.
CallSettled == getSessionCall.pc \in {"idle", "returned", "rejected"}

\* The page calls chatAPI.getSession(domainId).
GetSession ==
    /\ CallSettled
    /\ getSessionCalls < MaxCalls
    /\ getSessionCalls' = getSessionCalls + 1
    /\ getSessionCall' = EnterGetSession(chat_session, 0, IdleCall)
    /\ UNCHANGED <<chat_session, backendSessions, sessionSeq>>
    /\ UNCHANGED <<backendVars, socketVars, validationVars, cardVars, viewVars, planningState>>

\* The page calls chatAPI.reset(domainId): clearSessionId, then getSession.
Reset ==
    /\ CallSettled
    /\ getSessionCalls < MaxCalls
    /\ getSessionCalls' = getSessionCalls + 1
    /\ chat_session' = clearSessionId(chat_session)
    /\ getSessionCall' = EnterGetSession(chat_session', 0, IdleCall)
    /\ UNCHANGED <<backendSessions, sessionSeq>>
    /\ UNCHANGED <<backendVars, socketVars, validationVars, cardVars, viewVars, planningState>>

\* POST /chat/start answers with a new session: setSessionId, return.
StartSucceeds ==
    /\ getSessionCall.pc = "creating"
    /\ sessionSeq' = sessionSeq + 1
    /\ backendSessions' = backendSessions \cup {sessionSeq'}
    /\ chat_session' = sessionSeq'
    /\ getSessionCall' = [getSessionCall EXCEPT !.pc = "returned",
                                                !.created = @ + 1,
                                                !.ret = sessionSeq']
    /\ UNCHANGED getSessionCalls
    /\ UNCHANGED <<backendVars, socketVars, validationVars, cardVars, viewVars, planningState>>

\* POST /chat/start fails: fetchAPI throws and getSession rejects.
StartFails ==
    /\ getSessionCall.pc = "creating"
    /\ getSessionCall' = [getSessionCall EXCEPT !.pc = "rejected"]
    /\ UNCHANGED <<chat_session, backendSessions, sessionSeq, getSessionCalls>>
    /\ UNCHANGED <<backendVars, socketVars, validationVars, cardVars, viewVars, planningState>>

\* GET /chat/session/<id> answers with the session of that id.
LookupSucceeds ==
    /\ getSessionCall.pc = "looking"
    /\ getSessionCall.lookupId \in backendSessions
    /\ getSessionCall' = [getSessionCall EXCEPT !.pc = "returned",
                                                !.ret = getSessionCall.lookupId]
    /\ UNCHANGED <<chat_session, backendSessions, sessionSeq, getSessionCalls>>
    /\ UNCHANGED <<backendVars, socketVars, validationVars, cardVars, viewVars, planningState>>

\* GET /chat/session/<id> fails (the session is gone, or the request
\* failed): catch, clearSessionId, return chatAPI.getSession(domainId).
LookupFails ==
    /\ getSessionCall.pc = "looking"
    /\ getSessionCall.depth < MaxDepth
    /\ chat_session' = clearSessionId(chat_session)
    /\ getSessionCall' =
           EnterGetSession(chat_session', getSessionCall.depth + 1,
                           [getSessionCall EXCEPT !.failedLookups = @ + 1])
    /\ UNCHANGED <<backendSessions, sessionSeq, getSessionCalls>>
    /\ UNCHANGED <<backendVars, socketVars, validationVars, cardVars, viewVars, planningState>>

\* The backend drops session id (expiry, restart).
SessionExpires(id) ==
    /\ id \in backendSessions
    /\ backendSessions' = backendSessions \ {id}
    /\ UNCHANGED <<chat_session, sessionSeq, getSessionCall, getSessionCalls>>
    /\ UNCHANGED <<backendVars, socketVars, validationVars, cardVars, viewVars, planningState>>

ChatNext ==
    \/ GetSession
    \/ Reset
    \/ StartSucceeds
    \/ StartFails
    \/ LookupSucceeds
    \/ LookupFails
    \/ \E id \in 1..(MaxCalls + 1) : SessionExpires(id)

ChatSpec == ChatInit /\ [][ChatNext]_vars

\* ---------------------------------------------------------------- useDomainValidation
MaxDebounceTimers == 3
MaxRequests == 3

\* The texts the editor holds: empty, whitespace only, and two domains.
Inputs == {"", " ", "a", "b"}

\* String.prototype.trim
trim(x) == IF x = " " THEN "" ELSE x

\* !domainPddl.trim()
IsBlank(x) == trim(x) = ""

\* clearTimeout(debounceRef.current), when debounceRef.current is set
clearDebounceKept(ts, ref) == ts
clearDebounce(ts, ref) ==
    IF ref # 0 /\ ts[ref].state = "pending"
      THEN [ts EXCEPT ![ref].state = "cleared"]
      ELSE ts

\* setTimeout(() => { validate(); }, debounceMs) with the validate of a
\* render whose domainPddl is x
NewDebounceTimer(x) == [input |-> x, state |-> "pending"]

\* validateDomain(x) awaited by a validate() started from origin o
NewRequest(x, o) == [input |-> x, state |-> "pending", origin |-> o]

\* setResult(validationResult) with the response of request r
ResponseOf(r) == [request |-> r, input |-> requests[r].input]

ValidationInit ==
    /\ NotRunning
    /\ parse_arg = <<>>
    /\ parse_ret = NoParse
    /\ aggregate_arg = <<>>
    /\ aggregate_ret = NoVote
    /\ NoSocket
    /\ NoChat
    /\ validateOnChange \in BOOLEAN
    /\ domainPddl \in Inputs
    /\ debounceTimers = IF validateOnChange /\ ~IsBlank(domainPddl)
                          THEN <<NewDebounceTimer(domainPddl)>>
                          ELSE <<>>
    /\ debounceRef = Len(debounceTimers)
    /\ requests = <<>>
    /\ validationResult = NoResponse
    /\ isValidating = FALSE
    /\ NoCard
    /\ NoView
    /\ planningState = InitialPlanningState

\* The body of validate() of a render whose domainPddl is x, started from
\* origin o: a blank text clears the result, any other text is sent.
validate(x, o) ==
    IF IsBlank(x)
      THEN /\ validationResult' = NoResponse
           /\ UNCHANGED <<requests, isValidating>>
      ELSE /\ Len(requests) < MaxRequests
           /\ requests' = Append(requests, NewRequest(x, o))
           /\ isValidating' = TRUE
           /\ UNCHANGED validationResult

\* The editor text changes to x: the render is committed, the cleanup of
\* the previous effect runs and the effect runs again.
ChangeInput(x) ==
    /\ x \in Inputs
    /\ x # domainPddl
    /\ domainPddl' = x
    /\ IF validateOnChange
         THEN \E ts \in {clearDebounce(clearDebounce(debounceTimers, debounceRef),
                                       debounceRef)} :
                IF ~IsBlank(x)
                  THEN /\ Len(ts) < MaxDebounceTimers
                       /\ debounceTimers' = Append(ts, NewDebounceTimer(x))
                       /\ debounceRef' = Len(ts) + 1
                       /\ UNCHANGED validationResult
                  ELSE /\ debounceTimers' = ts
                       /\ validationResult' = NoResponse
                       /\ UNCHANGED debounceRef
         ELSE UNCHANGED <<debounceTimers, debounceRef, validationResult>>
    /\ UNCHANGED <<validateOnChange, requests, isValidating>>
    /\ UNCHANGED <<backendVars, socketVars, chatVars, cardVars, viewVars, planningState>>

\* Debounce timeout t fires after debounceMs: the validate it captured runs.
DebounceFire(t) ==
    /\ t \in DOMAIN debounceTimers
    /\ debounceTimers[t].state = "pending"
    /\ debounceTimers' = [debounceTimers EXCEPT ![t].state = "fired"]
    /\ validate(debounceTimers[t].input, "timer")
    /\ UNCHANGED <<validateOnChange, domainPddl, debounceRef>>
    /\ UNCHANGED <<backendVars, socketVars, chatVars, cardVars, viewVars, planningState>>

\* The caller invokes the validate it was handed by the committed render.
Validate ==
    /\ validate(domainPddl, "call")
    /\ UNCHANGED <<validateOnChange, domainPddl, debounceTimers, debounceRef>>
    /\ UNCHANGED <<backendVars, socketVars, chatVars, cardVars, viewVars, planningState>>

\* The response of request r arrives: setResult, then finally.
RequestResolves(r) ==
    /\ r \in DOMAIN requests
    /\ requests[r].state = "pending"
    /\ requests' = [requests EXCEPT ![r].state = "resolved"]
    /\ validationResult' = ResponseOf(r)
    /\ isValidating' = FALSE
    /\ UNCHANGED <<validateOnChange, domainPddl, debounceTimers, debounceRef>>
    /\ UNCHANGED <<backendVars, socketVars, chatVars, cardVars, viewVars, planningState>>

\* Request r fails: catch, then finally.
RequestRejects(r) ==
    /\ r \in DOMAIN requests
    /\ requests[r].state = "pending"
    /\ requests' = [requests EXCEPT ![r].state = "rejected"]
    /\ isValidating' = FALSE
    /\ UNCHANGED <<validateOnChange, domainPddl, debounceTimers, debounceRef,
                   validationResult>>
    /\ UNCHANGED <<backendVars, socketVars, chatVars, cardVars, viewVars, planningState>>

ValidationNext ==
    \/ \E x \in Inputs : ChangeInput(x)
    \/ \E t \in 1..MaxDebounceTimers : DebounceFire(t)
    \/ Validate
    \/ \E r \in 1..MaxRequests : RequestResolves(r)
    \/ \E r \in 1..MaxRequests : RequestRejects(r)

ValidationSpec == ValidationInit /\ [][ValidationNext]_vars

\* ---------------------------------------------------------------- IterationCard
MaxCritiques == 3
MaxVotes == 5

\* const breakdown = {correct: 0, wrong: 0, goal_not_reached: 0}, then
\* breakdown[result.verdict]++ for each result
TallyFirstOnly(results) ==
    IF results = <<>>
      THEN [v \in Verdict |-> 0]
      ELSE [[v \in Verdict |-> 0] EXCEPT ![results[1].verdict] = @ + 1]
RECURSIVE Tally(_)
Tally(results) ==
    IF results = <<>>
      THEN [v \in Verdict |-> 0]
      ELSE [Tally(SubSeq(results, 1, Len(results) - 1))
               EXCEPT ![results[Len(results)].verdict] = @ + 1]

\* the useMemo body
voteResult(props) ==
    IF Len(props.critiqueResults) = 0 \/ props.verdict = "null"
      THEN <<>>
      ELSE <<[majority_verdict |-> props.verdict,
              breakdown |-> Tally(props.critiqueResults),
              confidence |-> props.confidence,
              is_low_confidence |-> Less(props.confidence, [num |-> 4, den |-> 5])]>>

\* VoteDisplay: Object.values(breakdown).reduce((a, b) => a + b, 0)
RECURSIVE SumOver(_, _)
SumOver(f, keys) ==
    IF keys = {}
      THEN 0
      ELSE LET key == CHOOSE x \in keys : TRUE
           IN  f[key] + SumOver(f, keys \ {key})
totalVotes(b) == SumOver(b, DOMAIN b)

\* the confidences a card can be handed: 0 and the vote shares
Confidences ==
    {c \in [num : 0..MaxVotes, den : 1..MaxVotes] : c.num <= c.den}

\* the props of the card of an iteration that has just started
StartedCardProps ==
    [verdict |-> "null", confidence |-> [num |-> 0, den |-> 1],
     critiqueResults |-> <<>>]

CardInit ==
    /\ NotRunning
    /\ parse_arg = <<>>
    /\ parse_ret = NoParse
    /\ aggregate_arg = <<>>
    /\ aggregate_ret = NoVote
    /\ NoSocket
    /\ NoChat
    /\ NoValidation
    /\ NoCard
    /\ NoView
    /\ planningState = InitialPlanningState

\* PlanningView renders the card with new props.
RenderCard(props) ==
    /\ props # cardProps
    /\ cardProps' = props
    /\ cardVoteResult' = voteResult(props)
    /\ UNCHANGED <<backendVars, socketVars, chatVars, validationVars, viewVars, planningState>>

\* The props change as the iteration's record does: a critique sample is
\* appended, the vote sets verdict and confidence, a new run starts over.
CardNext ==
    \/ \E v \in Verdict :
          /\ Len(cardProps.critiqueResults) < MaxCritiques
          /\ RenderCard([cardProps EXCEPT
                            !.critiqueResults = Append(@, [verdict |-> v])])
    \/ \E v \in Verdict, c \in Confidences :
          RenderCard([cardProps EXCEPT !.verdict = v, !.confidence = c])
    \/ RenderCard(StartedCardProps)

CardSpec == CardInit /\ [][CardNext]_vars

\* ---------------------------------------------------------------- PlanningView
MaxRecords == 2

\* the plan text the server reports for iteration n
PlanTexts == <<"(move a b)", "(move b c)", "(move c a)", "(move a c)">>
PlanOf(n) == PlanTexts[n]

\* A server event about iteration n: data.iteration, data.plan,
\* data.verdict, data.majority_verdict, data.confidence,
\* data.best_error_reason.
ServerEvent(type, n) ==
    [type |-> type, iteration |-> n, plan |-> PlanOf(n), verdict |-> WRONG,
     confidence |-> [num |-> 1, den |-> 1], best_error_reason |-> "reason"]

RecordEventTypes == {"plan_generated", "critique_sample", "critique_complete"}

\* the events whose handling reads or writes iteration records
RecordEvents ==
    {ServerEvent(type, n) : type \in RecordEventTypes, n \in 1..MaxIterations}

\* the events the planning socket delivers
ServerEvents ==
    {ServerEvent(type, n) :
        type \in {"started", "iteration_started", "generating_plan",
                  "critiquing", "iteration_complete", "completed", "error"}
                 \cup RecordEventTypes,
        n \in 1..MaxIterations}

\* {number, plan: '', verdict: null, confidence: 0, errorReason: null,
\*  critiqueResults: []}
NewRecord(n) ==
    [number |-> n, plan |-> "", verdict |-> "null",
     confidence |-> [num |-> 0, den |-> 1], errorReason |-> "null",
     critiqueResults |-> <<>>]

\* prev.map(iter => iter.number === n ? {...iter, plan} : iter)
plan_generated(records, n, e) ==
    [i \in DOMAIN records |->
        IF records[i].number = n
          THEN [records[i] EXCEPT !.plan = e.plan]
          ELSE records[i]]

\* prev.map(iter => iter.number === n
\*   ? {...iter, critiqueResults: [...iter.critiqueResults, {verdict, ...}]} : iter)
critique_sample(records, n, e) ==
    [i \in DOMAIN records |->
        IF records[i].number = n
          THEN [records[i] EXCEPT
                   !.critiqueResults = Append(@, [verdict |-> e.verdict])]
          ELSE records[i]]

\* prev.map(iter => iter.number === n
\*   ? {...iter, verdict, confidence, errorReason} : iter)
critique_complete(records, n, e, reason) ==
    [i \in DOMAIN records |->
        IF records[i].number = n
          THEN [records[i] EXCEPT !.verdict = e.verdict,
                                  !.confidence = e.confidence,
                                  !.errorReason = reason]
          ELSE records[i]]

\* No record holds more critique results than the model keeps.
RecordsBounded(records) ==
    \A i \in DOMAIN records : Len(records[i].critiqueResults) <= MaxCritiques

\* the domain object domainAPI.get resolves with
Domains == [domain_pddl : {"", "(define (domain d))"},
            problem_pddl : {"", "(define (problem q))"}]

NoDomain == [domain_pddl |-> "", problem_pddl |-> ""]

\* !(!domain.domain_pddl || !domain.problem_pddl)
HasPddlDomainOnly(domain) == domain.domain_pddl # ""
HasPddl(domain) == domain.domain_pddl # "" /\ domain.problem_pddl # ""

\* new WebSocket(...) with onopen, onmessage, onerror and onclose assigned;
\* captured is the currentIteration the onMessage handler closed over
NewViewSocket(captured) ==
    [readyState |-> CONNECTING, onclose |-> "armed", startSent |-> 0,
     captured |-> captured]

\* setWs(websocket): the effect cleanup of the previous ws runs, ws?.close()
setWs(sockets_, current) ==
    IF current # 0 /\ sockets_[current].readyState \in {CONNECTING, OPEN}
      THEN [sockets_ EXCEPT ![current].readyState = CLOSING]
      ELSE sockets_

ViewInit ==
    /\ NotRunning
    /\ parse_arg = <<>>
    /\ parse_ret = NoParse
    /\ aggregate_arg = <<>>
    /\ aggregate_ret = NoVote
    /\ NoSocket
    /\ NoChat
    /\ NoValidation
    /\ NoCard
    /\ NoView
    /\ planningState = InitialPlanningState

\* The Start Planning / Retry button, shown when !isRunning and status is
\* not 'complete': startPlanning up to the await of createPlanningWebSocket,
\* which awaits domainAPI.get.
ViewStartPlanning ==
    /\ ~isRunning
    /\ status # "complete"
    /\ Len(fetches) < MaxStarts
    /\ isRunning' = TRUE
    /\ iterations' = <<>>
    /\ status' = "planning"
    /\ fetches' = Append(fetches, [state |-> "pending", domain |-> NoDomain,
                                   ret |-> 0])
    /\ UNCHANGED <<currentIteration, ws, viewSockets, onErrorCalls>>
    /\ UNCHANGED <<backendVars, socketVars, chatVars, validationVars, cardVars, planningState>>

\* domainAPI.get of fetch f resolves with domain: without both PDDL texts
\* onError is called and null returned, so startPlanning marks the run
\* failed; with both the socket is created, returned and stored by setWs.
FetchResolves(f, domain) ==
    /\ f \in DOMAIN fetches
    /\ fetches[f].state = "pending"
    /\ domain \in Domains
    /\ IF HasPddl(domain)
         THEN /\ viewSockets' = Append(setWs(viewSockets, ws), NewViewSocket(0))
              /\ ws' = Len(viewSockets) + 1
              /\ fetches' = [fetches EXCEPT ![f] =
                                [state |-> "resolved", domain |-> domain,
                                 ret |-> Len(viewSockets) + 1]]
              /\ UNCHANGED <<isRunning, status, onErrorCalls>>
         ELSE /\ onErrorCalls' = onErrorCalls + 1
              /\ isRunning' = FALSE
              /\ status' = "failed"
              /\ fetches' = [fetches EXCEPT ![f] =
                                [state |-> "resolved", domain |-> domain,
                                 ret |-> 0]]
              /\ UNCHANGED <<ws, viewSockets>>
    /\ UNCHANGED <<iterations, currentIteration>>
    /\ UNCHANGED <<backendVars, socketVars, chatVars, validationVars, cardVars, planningState>>

\* domainAPI.get of fetch f rejects: catch, onError, return null, and
\* startPlanning marks the run failed.
FetchRejects(f) ==
    /\ f \in DOMAIN fetches
    /\ fetches[f].state = "pending"
    /\ fetches' = [fetches EXCEPT ![f].state = "rejected"]
    /\ onErrorCalls' = onErrorCalls + 1
    /\ isRunning' = FALSE
    /\ status' = "failed"
    /\ UNCHANGED <<iterations, currentIteration, ws, viewSockets>>
    /\ UNCHANGED <<backendVars, socketVars, chatVars, validationVars, cardVars, planningState>>

\* The open event of socket s: onopen sends the start message.
ViewSocketOpen(s) ==
    /\ s \in DOMAIN viewSockets
    /\ viewSockets[s].readyState = CONNECTING
    /\ viewSockets' = [viewSockets EXCEPT ![s].readyState = OPEN,
                                          ![s].startSent = @ + 1]
    /\ UNCHANGED <<iterations, currentIteration, status, isRunning, ws, fetches,
                   onErrorCalls>>
    /\ UNCHANGED <<backendVars, socketVars, chatVars, validationVars, cardVars, planningState>>

\* The error event of socket s: onerror calls onError; the close event
\* follows.
ViewSocketError(s) ==
    /\ s \in DOMAIN viewSockets
    /\ viewSockets[s].readyState \in {CONNECTING, OPEN}
    /\ viewSockets' = [viewSockets EXCEPT ![s].readyState = CLOSED]
    /\ onErrorCalls' = onErrorCalls + 1
    /\ isRunning' = FALSE
    /\ status' = "failed"
    /\ UNCHANGED <<iterations, currentIteration, ws, fetches>>
    /\ UNCHANGED <<backendVars, socketVars, chatVars, validationVars, cardVars, planningState>>

\* The close event of socket s: onclose calls onClose.
ViewSocketClose(s) ==
    /\ s \in DOMAIN viewSockets
    /\ viewSockets[s].onclose = "armed"
    /\ viewSockets[s].readyState \in {OPEN, CLOSING, CLOSED}
    /\ viewSockets' = [viewSockets EXCEPT ![s].readyState = CLOSED,
                                          ![s].onclose = "fired"]
    /\ isRunning' = FALSE
    /\ UNCHANGED <<iterations, currentIteration, status, ws, fetches,
                   onErrorCalls>>
    /\ UNCHANGED <<backendVars, socketVars, chatVars, validationVars, cardVars, planningState>>

\* handleWSMessage(e), with target the iteration number the three record
\* cases compare iter.number with and reason the errorReason they store
handleWSMessage(e, target, reason) ==
    /\ iterations' =
          CASE e.type = "started" -> <<>>
            [] e.type = "iteration_started" -> Append(iterations, NewRecord(e.iteration))
            [] e.type = "plan_generated" -> plan_generated(iterations, target, e)
            [] e.type = "critique_sample" -> critique_sample(iterations, target, e)
            [] e.type = "critique_complete" ->
                   critique_complete(iterations, target, e, reason)
            [] OTHER -> iterations
    /\ Len(iterations') <= MaxRecords
    /\ RecordsBounded(iterations')
    /\ currentIteration' = IF e.type = "iteration_started"
                             THEN e.iteration
                             ELSE currentIteration
    /\ status' = CASE e.type = "started" -> "planning"
                   [] e.type = "completed" -> "complete"
                   [] e.type = "error" -> "failed"
                   [] OTHER -> status
    /\ isRunning' = IF e.type \in {"completed", "error"} THEN FALSE ELSE isRunning

\* Socket s delivers event e to the handleWSMessage it was created with.
ViewMessage(s, e) ==
    /\ s \in DOMAIN viewSockets
    /\ viewSockets[s].readyState = OPEN
    /\ e \in ServerEvents
    /\ handleWSMessage(e, e.iteration, "null")
    /\ UNCHANGED <<ws, viewSockets, fetches, onErrorCalls>>
    /\ UNCHANGED <<backendVars, socketVars, chatVars, validationVars, cardVars, planningState>>

ViewNext ==
    \/ ViewStartPlanning
    \/ \E f \in 1..MaxStarts, domain \in Domains : FetchResolves(f, domain)
    \/ \E f \in 1..MaxStarts : FetchRejects(f)
    \/ \E s \in 1..MaxStarts : ViewSocketOpen(s)
    \/ \E s \in 1..MaxStarts : ViewSocketError(s)
    \/ \E s \in 1..MaxStarts : ViewSocketClose(s)
    \/ \E s \in 1..MaxStarts, e \in ServerEvents : ViewMessage(s, e)

ViewSpec == ViewInit /\ [][ViewNext]_vars

\* ---------------------------------------------------------------- PlanningView, earlier version
\* startPlanning: createPlanningWebSocket(session.id, handleWSMessage, ...)
\* returns the socket at once; the handleWSMessage passed is the one of the
\* committed render and closes over its currentIteration.
EarlierStartPlanning ==
    /\ ~isRunning
    /\ status # "complete"
    /\ Len(viewSockets) < MaxStarts
    /\ isRunning' = TRUE
    /\ iterations' = <<>>
    /\ status' = "planning"
    /\ viewSockets' = Append(setWs(viewSockets, ws), NewViewSocket(currentIteration))
    /\ ws' = Len(viewSockets) + 1
    /\ UNCHANGED <<currentIteration, fetches, onErrorCalls>>
    /\ UNCHANGED <<backendVars, socketVars, chatVars, validationVars, cardVars, planningState>>

\* The open event of socket s: no handler is assigned.
EarlierSocketOpen(s) ==
    /\ s \in DOMAIN viewSockets
    /\ viewSockets[s].readyState = CONNECTING
    /\ viewSockets' = [viewSockets EXCEPT ![s].readyState = OPEN]
    /\ UNCHANGED <<iterations, currentIteration, status, isRunning, ws, fetches,
                   onErrorCalls>>
    /\ UNCHANGED <<backendVars, socketVars, chatVars, validationVars, cardVars, planningState>>

\* Socket s delivers event e: the record cases compare iter.number with the
\* currentIteration the handler closed over.
EarlierMessage(s, e) ==
    /\ s \in DOMAIN viewSockets
    /\ viewSockets[s].readyState = OPEN
    /\ e \in ServerEvents
    /\ handleWSMessage(e, viewSockets[s].captured, e.best_error_reason)
    /\ UNCHANGED <<ws, viewSockets, fetches, onErrorCalls>>
    /\ UNCHANGED <<backendVars, socketVars, chatVars, validationVars, cardVars, planningState>>

EarlierViewNext ==
    \/ EarlierStartPlanning
    \/ \E s \in 1..MaxStarts : EarlierSocketOpen(s)
    \/ \E s \in 1..MaxStarts : ViewSocketError(s)
    \/ \E s \in 1..MaxStarts : ViewSocketClose(s)
    \/ \E s \in 1..MaxStarts, e \in ServerEvents : EarlierMessage(s, e)

EarlierViewSpec == ViewInit /\ [][EarlierViewNext]_vars

\* ---------------------------------------------------------------- usePlanningWebSocket state
\* handleMessage(message): the state after the setState of the case of e.type
handleMessage(prev, e) ==
    CASE e.type = "started" ->
           [prev EXCEPT !.isRunning = TRUE, !.status = "planning",
                        !.iterations = <<>>, !.error = "null"]
      [] e.type = "iteration_started" ->
           [prev EXCEPT !.currentIteration = e.iteration,
                        !.iterations = Append(@, NewRecord(e.iteration))]
      [] e.type = "generating_plan" -> [prev EXCEPT !.status = "planning"]
      [] e.type = "plan_generated" ->
           [prev EXCEPT !.iterations = plan_generated(@, prev.currentIteration, e)]
      [] e.type = "critiquing" -> [prev EXCEPT !.status = "critiquing"]
      [] e.type = "critique_sample" ->
           [prev EXCEPT !.iterations = critique_sample(@, prev.currentIteration, e)]
      [] e.type = "critique_complete" ->
           [prev EXCEPT !.iterations =
                            critique_complete(@, prev.currentIteration, e,
                                              e.best_error_reason)]
      [] e.type = "iteration_complete" -> [prev EXCEPT !.status = "planning"]
      [] e.type = "completed" ->
           [prev EXCEPT !.isRunning = FALSE, !.status = "complete",
                        !.finalPlan = e.plan, !.finalVerdict = e.verdict]
      [] e.type = "error" ->
           [prev EXCEPT !.isRunning = FALSE, !.status = "failed",
                        !.error = "message"]
      [] OTHER -> prev

\* Socket s delivers event e: onmessage parses it and calls handleMessage.
HandleMessage(s, e) ==
    /\ s \in DOMAIN sockets
    /\ sockets[s].readyState = OPEN
    /\ e \in ServerEvents
    /\ planningState' = handleMessage(planningState, e)
    /\ Len(planningState'.iterations) <= MaxRecords
    /\ RecordsBounded(planningState'.iterations)
    /\ UNCHANGED <<backendVars, socketVars, chatVars, validationVars, cardVars,
                   viewVars>>

\* The steps that read or write the state of usePlanningWebSocket: the
\* startPlanning and stopPlanning calls and the server events, which need a
\* socket that has opened.
PlanningStateNext ==
    \/ Mount
    \/ StartPlanning
    \/ StopPlanning
    \/ \E s \in 1..MaxSockets : SocketOpen(s)
    \/ \E s \in 1..MaxSockets, e \in ServerEvents : HandleMessage(s, e)

PlanningStateSpec == PlanningInit /\ [][PlanningStateNext]_vars

HookTypeOK ==
    /\ wsStatus \in {"connecting", "connected", "disconnected", "error"}
    /\ wsRef \in 0..Len(sockets)
    /\ reconnectTimeoutRef \in 0..Len(timers)
    /\ Len(sockets) <= MaxSockets
    /\ Len(timers) <= MaxTimers
    /\ \A s \in DOMAIN sockets : sockets[s].readyState \in {CONNECTING, OPEN, CLOSING, CLOSED}

TypeOK ==
    /\ pc \in {"idle", "generating", "critiquing", "done", "raised", "cancelled"}
    /\ iteration \in 0..max_iterations
    /\ Len(iteration_history) <= max_iterations
    /\ result.status \in {"none", "valid", "max_iterations"}

\* ---------------------------------------------------------------- claims
MajorityAt(k) == iteration_history[k].vote_result.majority_verdict

\* C1: once an iteration's vote has majority_verdict CORRECT the loop is over:
\* that iteration is the last one recorded, run() has returned, and the calls
\* issued are exactly those of iterations 1..k (k generation calls and
\* k * num_critique_samples critique calls), so none is issued afterwards.
C1_NoIterationAfterValid ==
    \A k \in DOMAIN iteration_history :
        MajorityAt(k) = CORRECT =>
            /\ k = Len(iteration_history)
            /\ pc = "done"
            /\ gen_calls = k
            /\ crit_calls = k * num_critique_samples

C1_Witness ==
    /\ pc = "done"
    /\ max_iterations >= 2
    /\ Len(iteration_history) = 1
    /\ MajorityAt(1) = CORRECT

FirstCorrect(k) ==
    /\ k \in DOMAIN iteration_history
    /\ MajorityAt(k) = CORRECT
    /\ \A j \in 1..(k - 1) : MajorityAt(j) # CORRECT

SaysCorrect(task) == task.state = "ok" /\ task.content = <<PhraseCorrect>>

\* C2: when run() has returned (no provider call failed), it returned VALID
\* with iterations = k exactly when k <= max_iterations is the first iteration
\* whose vote is CORRECT; and when every sample of the last batch says "the
\* plan is correct" the result is VALID with final_verdict CORRECT and
\* iterations equal to the number of iterations run (1 for the first batch).
C2_ValidIffFirstCorrect ==
    pc = "done" =>
        /\ \A k \in 0..(max_iterations + 1) :
              (result.status = "valid" /\ result.iterations = k)
                  <=> (k <= max_iterations /\ FirstCorrect(k))
        /\ (\A i \in DOMAIN tasks : SaysCorrect(tasks[i])) =>
              /\ result.status = "valid"
              /\ result.final_verdict = CORRECT
              /\ result.iterations = gen_calls

C2_Witness ==
    /\ pc = "done"
    /\ result.status = "valid"
    /\ result.iterations = 2
    /\ MajorityAt(1) = WRONG
    /\ \A i \in DOMAIN tasks : SaysCorrect(tasks[i])

\* C3: when run() has returned and no iteration's vote was CORRECT, all
\* max_iterations iterations ran and the result is MAX_ITERATIONS with
\* iterations = max_iterations and final_verdict the last vote's majority.
C3_MaxIterationsResult ==
    (pc = "done" /\ \A k \in DOMAIN iteration_history : MajorityAt(k) # CORRECT) =>
        /\ Len(iteration_history) = max_iterations
        /\ result.status = "max_iterations"
        /\ result.iterations = max_iterations
        /\ result.final_verdict = MajorityAt(Len(iteration_history))

C3_Witness ==
    /\ pc = "done"
    /\ max_iterations = 2
    /\ result.status = "max_iterations"
    /\ MajorityAt(1) = WRONG
    /\ result.final_verdict = GOAL_NOT_REACHED

\* C4: if every provider call eventually returns or fails, run() reaches DONE
\* (it returns a PlanResult) and never issues more than max_iterations
\* generation calls.
C4_ReachesDone ==
    /\ <>(pc = "done")
    /\ [](gen_calls <= max_iterations)

\* What the code does guarantee under the same assumption: run() ends, by
\* returning or by letting the provider's exception escape.
RunTerminates == <>(pc \in {"done", "raised"})

\* C5: a failed generation call makes run() return a PlanResult with status
\* FAILED, with no critique call issued for that iteration.
C5_GenerationFailureReturnsFailed ==
    exception = "generation" =>
        /\ pc = "done"
        /\ result.status = "failed"
        /\ crit_calls = (iteration - 1) * num_critique_samples

OkTasks == {i \in DOMAIN tasks : tasks[i].state = "ok"}
FailedTasks == {i \in DOMAIN tasks : tasks[i].state = "failed"}

\* C6: when some but not all critique calls of the iteration have failed and
\* the rest returned, the run has not failed, and the vote of that iteration
\* is taken over exactly the successful samples.
C6_PartialFailureStillVotes ==
    (FailedTasks # {} /\ OkTasks # {} /\ OkTasks \cup FailedTasks = DOMAIN tasks) =>
        /\ pc # "raised"
        /\ exception = None
        /\ aggregate_calls = iteration =>
              vote_result.confidence.den = Cardinality(OkTasks)

\* C7: when every critique call of the iteration failed, the aggregator is
\* not called for it and run() returns a PlanResult with status FAILED.
C7_EmptyBatchReturnsFailed ==
    (tasks # <<>> /\ FailedTasks = DOMAIN tasks) =>
        /\ aggregate_calls = iteration - 1
        /\ pc = "done"
        /\ result.status = "failed"

\* C8: at termination the history has one record per completed iteration,
\* the validating one included: length k when VALID at iteration k, length
\* max_iterations when MAX_ITERATIONS; the result carries that history.
C8_HistoryLengthAtTermination ==
    pc = "done" =>
        /\ result.iteration_history = iteration_history
        /\ Len(iteration_history) = aggregate_calls
        /\ result.status = "valid" => Len(iteration_history) = result.iterations
        /\ result.status = "max_iterations" => Len(iteration_history) = max_iterations

C8_Witness ==
    /\ pc = "done"
    /\ result.status = "valid"
    /\ result.iterations = 2
    /\ Len(result.iteration_history) = 2
    /\ MajorityAt(1) = GOAL_NOT_REACHED

\* C9: every step leaves the history alone or appends exactly one record to
\* it, leaving the earlier records as they were, and the appended record
\* carries its own position as iteration number.
C9_HistoryAppendOnly ==
    [][\/ iteration_history' = iteration_history
       \/ /\ Len(iteration_history') = Len(iteration_history) + 1
          /\ SubSeq(iteration_history', 1, Len(iteration_history)) = iteration_history
          /\ iteration_history'[Len(iteration_history')].iteration = Len(iteration_history')
      ]_vars

C9_Witness ==
    /\ Len(iteration_history) = 2
    /\ iteration_history[1].iteration = 1
    /\ iteration_history[2].iteration = 2
    /\ iteration_history[1].plan # iteration_history[2].plan

CancelledInFlight == \E i \in DOMAIN tasks : tasks[i] = Abandoned

\* C10: once the run was cancelled with critique calls in flight it is in the
\* cancelled state for good: no PlanResult exists, the aggregator was not
\* called on the partial batch, no record was added for the iteration, and
\* nothing of that changes afterwards.
C10_CancelDeclaresNoVerdict ==
    /\ [](CancelledInFlight =>
            /\ pc = "cancelled"
            /\ result = NoResult
            /\ aggregate_calls = iteration - 1
            /\ Len(iteration_history) = iteration - 1)
    /\ [][CancelledInFlight =>
            UNCHANGED <<pc, result, vote_result, iteration_history>>]_vars

C10_Witness ==
    /\ CancelledInFlight
    /\ pc = "cancelled"
    /\ \E i \in DOMAIN tasks : SaysCorrect(tasks[i])
    /\ 2 * Cardinality({i \in DOMAIN tasks : SaysCorrect(tasks[i])}) > Len(tasks)

\* ---------------------------------------------------------------- parser claims
\* The verdict phrase a line holds, letter case aside.
PhraseIn(l) ==
    CASE l \in {"the plan is correct", "The Plan Is CORRECT"} -> CORRECT
      [] l \in {"the plan is wrong", "THE PLAN IS WRONG"} -> WRONG
      [] l = "goal not reached" -> GOAL_NOT_REACHED
      [] OTHER -> "none"

PhrasesOf(text) == {PhraseIn(text[i]) : i \in DOMAIN text} \ {"none"}

\* the first verdict phrase of the text stands in line i
EarliestPhraseAt(text, i) ==
    /\ i \in DOMAIN text
    /\ PhraseIn(text[i]) # "none"
    /\ \A j \in 1..(i - 1) : PhraseIn(text[j]) = "none"

Parsed == parse_ret # NoParse

\* C11: parse always returns one of the three verdicts, and for a text with
\* none of the three verdict phrases (the empty text included) that verdict
\* is WRONG.
C11_NoPhraseIsWrong ==
    Parsed =>
        /\ parse_ret.verdict \in Verdict
        /\ parse_ret.raw_response = parse_arg
        /\ PhrasesOf(parse_arg) = {} => parse_ret.verdict = WRONG

C11_Witness ==
    /\ Parsed
    /\ Len(parse_arg) = 2
    /\ PhrasesOf(parse_arg) = {}
    /\ parse_ret.verdict = WRONG
    /\ parse_ret.error_reason # None

\* C12: for a text with more than one of the verdict phrases, parse returns
\* the verdict of the phrase that stands earliest in the text.
C12_EarliestPhraseWins ==
    (Parsed /\ Cardinality(PhrasesOf(parse_arg)) > 1) =>
        \A i \in DOMAIN parse_arg :
            EarliestPhraseAt(parse_arg, i) => parse_ret.verdict = PhraseIn(parse_arg[i])

\* C13: for a text, in any letter case, whose first verdict phrase is "the
\* plan is correct", parse returns CORRECT.
C13_CorrectPhraseFirstIsCorrect ==
    Parsed =>
        \A i \in DOMAIN parse_arg :
            (EarliestPhraseAt(parse_arg, i) /\ PhraseIn(parse_arg[i]) = CORRECT)
                => parse_ret.verdict = CORRECT

C13_Witness ==
    /\ Parsed
    /\ Len(parse_arg) = 3
    /\ parse_arg[2] = "The Plan Is CORRECT"
    /\ parse_arg[3] = PhraseWrong
    /\ PhraseIn(parse_arg[1]) = "none"
    /\ parse_ret.verdict = CORRECT

\* C14: a result with verdict CORRECT carries no error_reason, also when the
\* text holds a failure-signal pattern.
C14_NoErrorReasonWhenCorrect ==
    (Parsed /\ parse_ret.verdict = CORRECT) => parse_ret.error_reason = None

C14_Witness ==
    /\ Parsed
    /\ parse_ret.verdict = CORRECT
    /\ \E i \in DOMAIN parse_arg : parse_arg[i] = "PRECONDITION FAILED: (clear A)"
    /\ parse_ret.error_reason = None

\* ---------------------------------------------------------------- aggregator claims
Voted == aggregate_ret # NoVote /\ aggregate_ret # IndexError

Occurrences(b, v) == Cardinality({i \in DOMAIN b : b[i].verdict = v})

MaxOccurrences(b) ==
    CHOOSE n \in 0..Len(b) :
        /\ \E v \in Verdict : Occurrences(b, v) = n
        /\ \A v \in Verdict : Occurrences(b, v) <= n

Leaders(b) == {v \in Verdict : Occurrences(b, v) = MaxOccurrences(b)}

\* C15: when two or more kinds are tied for the highest count, the majority
\* verdict is WRONG if WRONG is among them and GOAL_NOT_REACHED otherwise,
\* whatever the order of the samples; so never CORRECT.
C15_TieBreakFailClosed ==
    (Voted /\ Cardinality(Leaders(aggregate_arg)) >= 2) =>
        aggregate_ret.majority_verdict =
            IF WRONG \in Leaders(aggregate_arg) THEN WRONG ELSE GOAL_NOT_REACHED

C17_StrictMajorityWins ==
    Voted =>
        \A v \in Verdict :
            (\A w \in Verdict \ {v} :
                Occurrences(aggregate_arg, v) > Occurrences(aggregate_arg, w))
            => /\ aggregate_ret.majority_verdict = v
               /\ aggregate_ret.confidence.den > 0
               /\ aggregate_ret.confidence.num * Len(aggregate_arg)
                     = Occurrences(aggregate_arg, v) * aggregate_ret.confidence.den

C17_Witness ==
    /\ Voted
    /\ Len(aggregate_arg) = 5
    /\ aggregate_arg[1].verdict = WRONG
    /\ Occurrences(aggregate_arg, CORRECT) = 3
    /\ Occurrences(aggregate_arg, WRONG) = 2
    /\ aggregate_ret.majority_verdict = CORRECT
    /\ aggregate_ret.confidence = [num |-> 3, den |-> 5]

\* C18: for a non-empty batch confidence is the highest count over the batch
\* size, lies in (0, 1], and is_low_confidence holds exactly when
\* 5 * highest count < 4 * batch size.
C18_ConfidenceAndLowFlag ==
    Voted =>
        /\ aggregate_ret.confidence.den > 0
        /\ 0 < aggregate_ret.confidence.num
        /\ aggregate_ret.confidence.num <= aggregate_ret.confidence.den
        /\ aggregate_ret.confidence.num * Len(aggregate_arg)
              = MaxOccurrences(aggregate_arg) * aggregate_ret.confidence.den
        /\ aggregate_ret.is_low_confidence
              <=> (5 * MaxOccurrences(aggregate_arg) < 4 * Len(aggregate_arg))

C18_Witness ==
    /\ Voted
    /\ Len(aggregate_arg) = 5
    /\ MaxOccurrences(aggregate_arg) = 4
    /\ aggregate_ret.confidence = [num |-> 4, den |-> 5]
    /\ ~aggregate_ret.is_low_confidence

\* C19: best_critique is the first element of the batch, in batch order,
\* whose verdict is the majority verdict.
C19_BestCritiqueIsFirstMatch ==
    Voted =>
        /\ aggregate_ret.best_critique.verdict = aggregate_ret.majority_verdict
        /\ \E i \in DOMAIN aggregate_arg :
              /\ aggregate_arg[i] = aggregate_ret.best_critique
              /\ \A j \in 1..(i - 1) :
                    aggregate_arg[j].verdict # aggregate_ret.majority_verdict

C19_Witness ==
    /\ Voted
    /\ Len(aggregate_arg) = 5
    /\ aggregate_arg[1].verdict = CORRECT
    /\ aggregate_ret.majority_verdict = WRONG
    /\ aggregate_ret.best_critique.error_reason # None
    /\ \E j \in DOMAIN aggregate_arg :
          /\ aggregate_arg[j].verdict = WRONG
          /\ aggregate_arg[j].error_reason = None

\* C21: the vote does not depend on the order of the batch: aggregate of any
\* permutation of the batch has the same breakdown, the same confidence and
\* the same majority_verdict as aggregate of the batch.
C21_OrderIndependent ==
    Voted =>
        \A f \in Permutations(DOMAIN aggregate_arg) :
            LET other == aggregate([i \in DOMAIN aggregate_arg |-> aggregate_arg[f[i]]])
            IN  /\ other.breakdown = aggregate_ret.breakdown
                /\ other.confidence = aggregate_ret.confidence
                /\ other.majority_verdict = aggregate_ret.majority_verdict

InFlightCritiques == {i \in DOMAIN tasks : tasks[i] = Pending}

\* C22: iterations are sequential fan-out/fan-in: while a generation call is
\* in flight no critique call is; critique calls are issued only by the step
\* in which the generation call returns a plan; and a generation call is
\* issued only when no critique call is in flight, every call of the previous
\* fan-out having returned.
C22_IterationsSequential ==
    /\ [](pc = "generating" => InFlightCritiques = {})
    /\ [][crit_calls' # crit_calls =>
             /\ pc = "generating"
             /\ pc' = "critiquing"
             /\ plan' # None
             /\ InFlightCritiques = {}]_vars
    /\ [][gen_calls' # gen_calls =>
             /\ \A i \in DOMAIN tasks : tasks[i].state = "ok"
             /\ \A i \in DOMAIN tasks' : tasks'[i].state = "ok"
             /\ pc' = "generating"]_vars

C22_Witness ==
    /\ pc = "generating"
    /\ iteration = 2
    /\ Len(tasks) = 3
    /\ \A i \in DOMAIN tasks : tasks[i].state = "ok"

\* C23: no call is repeated: when run() has returned with iterations = k it
\* issued k generation calls and k * num_critique_samples critique calls, and
\* the critique calls of a fan-out all carry the same prompt, one per sample.
C23_NoRetries ==
    /\ pc = "done" =>
          /\ gen_calls = result.iterations
          /\ crit_calls = result.iterations * num_critique_samples
    /\ pc \in {"critiquing", "done"} =>
          /\ Len(crit_prompts) = num_critique_samples
          /\ \A i, j \in DOMAIN crit_prompts : crit_prompts[i] = crit_prompts[j]

C23_Witness ==
    /\ pc = "done"
    /\ result.iterations = 2
    /\ num_critique_samples = 3
    /\ crit_calls = 6
    /\ gen_calls = 2

RejectionReason(k) == iteration_history[k].vote_result.best_critique.error_reason

Embeds(prompt, line) == \E i \in DOMAIN prompt : prompt[i] = line

\* C24: the generation prompt of iteration 1 carries no critique history; the
\* prompt of a later iteration embeds the error_reason of the previous
\* iteration's best critique, or, when that critique has none, a message in
\* which no placeholder for the absent value appears.
C24_PromptEmbedsReason ==
    pc = "generating" =>
        IF iteration = 1
          THEN gen_prompt = PLAN_PROMPT(<<>>)
          ELSE /\ gen_prompt # PLAN_PROMPT(<<>>)
               /\ IF RejectionReason(iteration - 1) # None
                    THEN Embeds(gen_prompt, RejectionReason(iteration - 1))
                    ELSE ~Embeds(gen_prompt, None)

\* C25: the critique history accumulates: the generation prompt of iteration
\* k+1 embeds the rejection reason of every earlier iteration that gave one.
C25_HistoryAccumulates ==
    pc = "generating" =>
        \A k \in 1..(iteration - 1) :
            RejectionReason(k) # None => Embeds(gen_prompt, RejectionReason(k))

\* C26: in a returned PlanResult, status valid goes with final_verdict
\* CORRECT, status max_iterations with a final_verdict other than CORRECT,
\* and final_verdict is the majority_verdict of the last history record.
C26_FinalVerdictConsistent ==
    pc = "done" =>
        /\ result.status = "valid" => result.final_verdict = CORRECT
        /\ result.status = "max_iterations" => result.final_verdict # CORRECT
        /\ result.iteration_history # <<>>
        /\ result.final_verdict =
              result.iteration_history[Len(result.iteration_history)].vote_result.majority_verdict

C26_Witness ==
    /\ pc = "done"
    /\ max_iterations = 1
    /\ result.status = "max_iterations"
    /\ result.final_verdict = GOAL_NOT_REACHED

\* C27: the returned plan is the candidate of the last executed iteration:
\* the plan generated last, the plan of the last history record and the plan
\* embedded in the prompt of every critique call of the last fan-out.
C27_ReturnsLastCandidate ==
    pc = "done" =>
        /\ result.plan = plan
        /\ result.plan = iteration_history[Len(iteration_history)].plan
        /\ \A i \in DOMAIN crit_prompts : Embeds(crit_prompts[i], result.plan)

C27_Witness ==
    /\ pc = "done"
    /\ Len(iteration_history) = 2
    /\ iteration_history[1].plan # result.plan
    /\ result.plan = iteration_history[2].plan

PendingTimers == {t \in DOMAIN timers : timers[t].state = "pending"}

\* C28: with reconnect enabled, reconnection is bounded: between two open
\* events at most maxReconnectAttempts sockets are opened by reconnect
\* timers, once that many were opened no reconnect timer is pending, and an
\* open event sets reconnectAttempts to 0.
C28_ReconnectBounded ==
    /\ [](reconnect =>
            /\ autoReconnects <= maxReconnectAttempts
            /\ autoReconnects >= maxReconnectAttempts => PendingTimers = {})
    /\ [][(\E s \in 1..MaxSockets : SocketOpen(s)) => reconnectAttempts' = 0]_vars

\* C29: after disconnect() and until connect() is called, no reconnect timer
\* is pending and no WebSocket is created.
C29_NoReconnectAfterDisconnect ==
    /\ [](stopped => PendingTimers = {})
    /\ [][stopped /\ stopped' => Len(sockets') = Len(sockets)]_vars

\* C30: every start message is sent over the open socket, exactly once, and
\* none is dropped: nothing was dropped, and when no 100 ms timer is pending
\* as many start messages were sent as startPlanning was called.
C30_StartSentOnce ==
    /\ startDropped = 0
    /\ startSent + startTimer = startCalls

VerdictsOf(b) == [i \in DOMAIN b |-> b[i].verdict]

\* C39: for a batch of 3 CORRECT followed by 2 WRONG the breakdown is the
\* mapping {CORRECT: 3, WRONG: 2}, with entries only for the verdict kinds
\* that occur in the batch.
C39_BreakdownSeenOnly ==
    (Voted /\ VerdictsOf(aggregate_arg) = <<CORRECT, CORRECT, CORRECT, WRONG, WRONG>>) =>
        /\ DOMAIN aggregate_ret.breakdown = {CORRECT, WRONG}
        /\ aggregate_ret.breakdown[CORRECT] = 3
        /\ aggregate_ret.breakdown[WRONG] = 2

\* C31: the timer that will make the n-th consecutive automatic reconnect
\* (scheduled when n - 1 were made since the last open event) has delay
\* min(reconnectInterval * 2^(n-1), maxBackoffInterval) with
\* exponentialBackoff on and reconnectInterval with it off, and no delay
\* exceeds maxBackoffInterval with it on.
C31_BackoffDoubles ==
    [][Len(timers') = Len(timers) + 1 =>
          timers'[Len(timers')].delay =
              IF exponentialBackoff
                THEN Min(reconnectInterval * 2^autoReconnects, maxBackoffInterval)
                ELSE reconnectInterval]_vars

\* C37: chatAPI.getSession recovers from a stale stored id: a failed lookup
\* clears the stored id and leads to exactly one /chat/start session; a call
\* makes at most one failed lookup (recursion depth at most 1); after a
\* successful return the stored id is the id of the returned session.
C37_StaleSessionRecovered ==
    /\ getSessionCall.failedLookups <= 1
    /\ getSessionCall.depth <= 1
    /\ getSessionCall.created <= 1
    /\ (getSessionCall.failedLookups = 1 /\ getSessionCall.pc = "creating")
          => chat_session = 0
    /\ (getSessionCall.failedLookups = 1 /\ getSessionCall.pc = "returned")
          => getSessionCall.created = 1
    /\ getSessionCall.pc = "returned"
          => /\ chat_session = getSessionCall.ret
             /\ getSessionCall.ret \in 1..sessionSeq

C37_Witness ==
    /\ getSessionCall.pc = "returned"
    /\ getSessionCall.failedLookups = 1
    /\ getSessionCall.depth = 1
    /\ getSessionCall.created = 1
    /\ chat_session = getSessionCall.ret

PendingDebounceTimers ==
    {t \in DOMAIN debounceTimers : debounceTimers[t].state = "pending"}

\* C35: with validateOnChange on, validation is debounced: at most one timer
\* is pending, and it is the timer of the current, non-blank text, so that a
\* timer issues a request only for a text that stayed unchanged until it
\* fired; a change to a blank text issues no request and clears the result.
C35_Debounced ==
    [][validateOnChange =>
         /\ Cardinality(PendingDebounceTimers) <= 1
         /\ \A t \in PendingDebounceTimers :
               /\ t = debounceRef
               /\ debounceTimers[t].input = domainPddl
               /\ ~IsBlank(domainPddl)
         /\ \A r \in DOMAIN requests' \ DOMAIN requests :
               requests'[r].origin = "timer" =>
                   /\ requests'[r].input = domainPddl
                   /\ domainPddl' = domainPddl
                   /\ ~IsBlank(domainPddl)
         /\ (domainPddl' # domainPddl /\ IsBlank(domainPddl')) =>
               /\ requests' = requests
               /\ PendingDebounceTimers' = {}
               /\ validationResult' = NoResponse]_vars

\* A timer set for "a" was cleared by a change, the timer of the next text
\* fired and issued the request, and a change to a blank text cleared a result.
C35_Witness ==
    /\ validateOnChange
    /\ \E t \in DOMAIN debounceTimers : debounceTimers[t].state = "cleared"
    /\ \E r \in DOMAIN requests :
          requests[r].origin = "timer" /\ requests[r].state = "resolved"
    /\ IsBlank(domainPddl)
    /\ validationResult = NoResponse

\* C36: the result held always belongs to the most recently started
\* validation: a response never replaces the result of a request that was
\* started later.
C36_NewestResultKept ==
    [][(validationResult # NoResponse /\ validationResult' # NoResponse)
          => validationResult'.request >= validationResult.request]_vars


\* C38: the card's vote result is null whenever there are no critique
\* results or no verdict; when it is not null its breakdown has the three
\* verdict keys, its counts sum to the number of critique results (the total
\* VoteDisplay shows), and is_low_confidence is exactly confidence < 0.8.
C38_CardVoteResult ==
    /\ (Len(cardProps.critiqueResults) = 0 \/ cardProps.verdict = "null")
          => cardVoteResult = <<>>
    /\ cardVoteResult # <<>> =>
          /\ DOMAIN cardVoteResult[1].breakdown = {CORRECT, WRONG, GOAL_NOT_REACHED}
          /\ totalVotes(cardVoteResult[1].breakdown) = Len(cardProps.critiqueResults)
          /\ cardVoteResult[1].is_low_confidence
                <=> (10 * cardProps.confidence.num < 8 * cardProps.confidence.den)

\* A full list of results and confidence 4/5: a vote result that is not
\* low-confidence.
C38_Witness ==
    /\ cardVoteResult # <<>>
    /\ Len(cardProps.critiqueResults) = MaxCritiques
    /\ cardVoteResult[1].breakdown[WRONG] = 2
    /\ cardProps.confidence = [num |-> 4, den |-> 5]
    /\ ~cardVoteResult[1].is_low_confidence


\* the fetches that resolved with both PDDL texts
UsableFetches ==
    {f \in DOMAIN fetches :
        fetches[f].state = "resolved" /\ fetches[f].domain.domain_pddl # ""
                                      /\ fetches[f].domain.problem_pddl # ""}

\* C32: createPlanningWebSocket opens a socket only after domain_pddl and
\* problem_pddl were both loaded; when either is missing or the load fails
\* it opens no socket, calls onError and returns null, and startPlanning
\* ends with isRunning false and status 'failed'; a socket that opens sends
\* the start message exactly once, on open.
C32_SocketAfterPddl ==
    [][/\ Len(viewSockets') = Cardinality(UsableFetches')
       /\ \A f \in UsableFetches' : fetches'[f].ret \in DOMAIN viewSockets'
       /\ \A f \in DOMAIN fetches :
             (fetches[f].state = "pending" /\ f \notin UsableFetches'
                  /\ fetches'[f].state # "pending") =>
                 /\ viewSockets' = viewSockets
                 /\ ws' = ws
                 /\ onErrorCalls' = onErrorCalls + 1
                 /\ fetches'[f].ret = 0
                 /\ ~isRunning'
                 /\ status' = "failed"
       /\ \A s \in DOMAIN viewSockets' \ DOMAIN viewSockets :
             viewSockets'[s].startSent = 0
       /\ \A s \in DOMAIN viewSockets :
             viewSockets'[s].startSent =
                 IF viewSockets[s].readyState = CONNECTING
                    /\ viewSockets'[s].readyState = OPEN
                   THEN viewSockets[s].startSent + 1
                   ELSE viewSockets[s].startSent
       /\ \A s \in DOMAIN viewSockets' :
             viewSockets'[s].readyState = OPEN => viewSockets'[s].startSent = 1]_vars

\* One run failed for a missing problem_pddl; the retry loaded both texts
\* and its socket opened and sent the start message.
C32_Witness ==
    /\ \E f \in DOMAIN fetches :
          fetches[f].state = "resolved" /\ fetches[f].domain.problem_pddl = ""
    /\ \E f \in UsableFetches :
          /\ viewSockets[fetches[f].ret].readyState = OPEN
          /\ viewSockets[fetches[f].ret].startSent = 1
    /\ onErrorCalls >= 1


\* C34: in usePlanningWebSocket isRunning is true only while status is
\* 'planning' or 'critiquing'; 'idle', 'complete' and 'failed' always come
\* with isRunning false.
C34_RunningOnlyWhilePlanning ==
    /\ planningState.isRunning => planningState.status \in {"planning", "critiquing"}
    /\ planningState.status \in {"idle", "complete", "failed"}
          => ~planningState.isRunning

\* The last run delivered iteration records and a final plan and has ended,
\* completed or stopped.
C34_Witness ==
    /\ startCalls = MaxStarts
    /\ planningState.status \in {"complete", "idle"}
    /\ planningState.finalPlan # "null"
    /\ Len(planningState.iterations) > 0
    /\ ~planningState.isRunning


\* Between the lists before and after, only records of iteration n differ:
\* the number and order of the records and every other record are the same.
OnlyRecordsOf(n, before, after) ==
    /\ Len(after) = Len(before)
    /\ \A i \in DOMAIN before :
          /\ after[i].number = before[i].number
          /\ before[i].number # n => after[i] = before[i]

\* What the handling of event e may do to the list, n being the iteration
\* the event belongs to.
RecordFrame(e, n, before, after) ==
    CASE e.type = "started" -> after = <<>>
      [] e.type = "iteration_started" -> after = Append(before, NewRecord(e.iteration))
      [] e.type \in RecordEventTypes -> OnlyRecordsOf(n, before, after)
      [] OTHER -> after = before

\* C33: in PlanningView a plan_generated, critique_sample or
\* critique_complete event changes only the record of the event's iteration
\* number: every other record and the number and order of records are
\* unchanged; iteration_started appends exactly one empty record and
\* 'started' empties the list.
C33_OnlyOwnRecord ==
    [][\A s \in 1..MaxStarts, e \in ServerEvents :
          EarlierMessage(s, e) => RecordFrame(e, e.iteration, iterations, iterations')]_vars

\* The same frame for the later PlanningView, which compares iter.number
\* with the event's iteration number.
LaterViewFrame ==
    [][\A s \in 1..MaxStarts, e \in ServerEvents :
          ViewMessage(s, e) => RecordFrame(e, e.iteration, iterations, iterations')]_vars

\* The same frame for usePlanningWebSocket, where an event belongs to the
\* current iteration.
HookFrame ==
    [][\A s \in 1..MaxSockets, e \in ServerEvents :
          HandleMessage(s, e) =>
              RecordFrame(e, planningState.currentIteration,
                          planningState.iterations, planningState'.iterations)]_vars

====
